---- MODULE Spec2Model ----
(***************************************************************************)
(* Caption-generation scripts of sslq_v1_600_dataset_scripts.              *)
(*                                                                         *)
(* Two variants of the caption pipeline are modelled:                      *)
(*   prep  : src/image_model_training/dataset_prep_for_lora_training.py    *)
(*   heavy : src/scripts/generate_sslq_captions_lora_public_heavy__        *)
(*           texttraining.py                                               *)
(*                                                                         *)
(* A Python str is a sequence of one-character strings.  Every regular     *)
(* expression of the source is an operator that computes what re.sub,      *)
(* re.split or finditer computes for that pattern (leftmost, greedy,       *)
(* non-overlapping matches).                                               *)
(***************************************************************************)
EXTENDS Integers, Sequences, FiniteSets, TLC

VARIABLES
    pc,      \* control position of the function or loop under examination
    text,    \* the str argument of the function under examination
    row,     \* one csv.DictReader row: a function from column names to str
    conf,    \* the module-level configuration in effect
    ret,     \* the value returned by the call under examination
    ret2,    \* the value returned by a second call made on ret
    desc,    \* the local `desc` of generate_description / process_csv
    extra,   \* the local `extra` of generate_description
    STRONG_LOOKUP,   \* the module global: normalized key -> (token, weight)
    STRONG_PATTERN,  \* the module global: the keys in the order of the alternation
    reader,  \* the items a for loop has still to visit (csv rows, image paths)
    counts,  \* the local `counts` of process_csv / `processed` of main
    out,     \* the files under the output directory / OUT_CSV as it is on disk
    buf,     \* what was written to the open OUT_CSV and is not flushed yet
    done,    \* the local `done` of main
    calls,   \* the calls of model.generate_content, in order: how each ended
             \* (call_model) or the image path it was given (main)
    attempt, \* the loop variable `attempt` of call_model
    slept    \* the arguments of the time.sleep calls of call_model, in order

indexVars == <<STRONG_LOOKUP, STRONG_PATTERN>>

runVars == <<reader, counts, out, buf, done, calls, attempt, slept>>

vars == <<pc, text, row, conf, ret, ret2, desc, extra, STRONG_LOOKUP, STRONG_PATTERN,
          reader, counts, out, buf, done, calls, attempt, slept>>

\* The value of a variable that the entry point under examination does not use.
Idle == <<>>

\* the loops of process_csv, main and call_model are not entered
RunIdle ==
    /\ reader = Idle /\ counts = Idle /\ out = Idle /\ buf = Idle
    /\ done = Idle /\ calls = Idle /\ attempt = Idle /\ slept = Idle

(***************************************************************************)
(* Characters and strings                                                  *)
(***************************************************************************)
LowerLetters ==
    <<"a", "b", "c", "d", "e", "f", "g", "h", "i", "j", "k", "l", "m",
      "n", "o", "p", "q", "r", "s", "t", "u", "v", "w", "x", "y", "z">>

UpperLetters ==
    <<"A", "B", "C", "D", "E", "F", "G", "H", "I", "J", "K", "L", "M",
      "N", "O", "P", "Q", "R", "S", "T", "U", "V", "W", "X", "Y", "Z">>

Digits == <<"0", "1", "2", "3", "4", "5", "6", "7", "8", "9">>

Range(f) == {f[i] : i \in DOMAIN f}

LowerSet == Range(LowerLetters)
UpperSet == Range(UpperLetters)
DigitSet == Range(Digits)

IndexOf(seq, c) == CHOOSE i \in DOMAIN seq : seq[i] = c

ToLowerMap == [c \in UpperSet |-> LowerLetters[IndexOf(UpperLetters, c)]]
ToUpperMap == [c \in LowerSet |-> UpperLetters[IndexOf(LowerLetters, c)]]

\* str.lower() and str.upper() on one character
Lower(c) == IF c \in UpperSet THEN ToLowerMap[c] ELSE c
Upper(c) == IF c \in LowerSet THEN ToUpperMap[c] ELSE c

\* str.lower()
LowerStr(s) == [i \in 1..Len(s) |-> Lower(s[i])]

\* the class \s of re, and the characters str.strip() removes
IsSpace(c) == c \in {" ", "\t", "\n", "\r"}

\* the class \w of re
IsWord(c) == c \in LowerSet \/ c \in UpperSet \/ c \in DigitSet \/ c = "_"

\* \b at the gap before s[i], i in 1..Len(s)+1
WordBoundary(s, i) ==
    LET before == i > 1 /\ IsWord(s[i - 1])
        after  == i <= Len(s) /\ IsWord(s[i])
    IN  before # after

RECURSIVE LStrip(_)
LStrip(s) == IF s # <<>> /\ IsSpace(s[1]) THEN LStrip(Tail(s)) ELSE s

RECURSIVE RStrip(_)
RStrip(s) ==
    IF s # <<>> /\ IsSpace(s[Len(s)]) THEN RStrip(SubSeq(s, 1, Len(s) - 1)) ELSE s

\* str.strip()
Strip(s) == RStrip(LStrip(s))

\* s[i:] of Python for a 1-based i
From(s, i) == SubSeq(s, i, Len(s))

\* p occurs in s at index i
MatchAt(s, i, p) ==
    /\ i + Len(p) - 1 <= Len(s)
    /\ \A k \in 1..Len(p) : s[i + k - 1] = p[k]

\* p occurs in s at index i, letters compared without case (re.IGNORECASE)
MatchAtCI(s, i, p) ==
    /\ i + Len(p) - 1 <= Len(s)
    /\ \A k \in 1..Len(p) : Lower(s[i + k - 1]) = Lower(p[k])

\* p in s
Contains(s, p) == \E i \in 1..(Len(s) + 1) : MatchAt(s, i, p)

\* str.replace(a, b) for one-character a and b
ReplaceChar(s, a, b) == [i \in 1..Len(s) |-> IF s[i] = a THEN b ELSE s[i]]

\* the index after the run of whitespace that starts at i (i itself when none)
RECURSIVE SpaceRunEnd(_, _)
SpaceRunEnd(s, i) ==
    IF i <= Len(s) /\ IsSpace(s[i]) THEN SpaceRunEnd(s, i + 1) ELSE i

\* the index after the run of "." that starts at i (i itself when none)
RECURSIVE DotRunEnd(_, _)
DotRunEnd(s, i) ==
    IF i <= Len(s) /\ s[i] = "." THEN DotRunEnd(s, i + 1) ELSE i

\* re.sub(r"\s+", " ", s)
RECURSIVE CollapseSpaceFrom(_, _)
CollapseSpaceFrom(s, i) ==
    IF i > Len(s) THEN <<>>
    ELSE IF IsSpace(s[i]) THEN <<" ">> \o CollapseSpaceFrom(s, SpaceRunEnd(s, i))
    ELSE <<s[i]>> \o CollapseSpaceFrom(s, i + 1)

CollapseSpace(s) == CollapseSpaceFrom(s, 1)

\* " ".join(parts)
RECURSIVE JoinSpace(_)
JoinSpace(parts) ==
    IF parts = <<>> THEN <<>>
    ELSE IF Len(parts) = 1 THEN parts[1]
    ELSE parts[1] \o <<" ">> \o JoinSpace(Tail(parts))

\* "".join(parts)
RECURSIVE JoinAll(_)
JoinAll(parts) == IF parts = <<>> THEN <<>> ELSE parts[1] \o JoinAll(Tail(parts))

\* all sequences over S of length at most n
StringsUpTo(S, n) == UNION {[1..k -> S] : k \in 0..n}

\* all concatenations of at most n pieces of P
RECURSIVE PiecesUpTo(_, _)
PiecesUpTo(P, n) ==
    IF n = 0 THEN {<<>>}
    ELSE LET shorter == PiecesUpTo(P, n - 1)
         IN  shorter \cup {s \o p : s \in shorter, p \in P}

\* Python's None, a value that is no str
None == <<"None object">>

(***************************************************************************)
(* sanitize_text (the two variants are the same text)                      *)
(***************************************************************************)
SentinelNan  == <<"n", "a", "n">>
SentinelNone == <<"n", "o", "n", "e">>

\* re.sub(r'^"|"$', "", s): one quote at the start and one at the end
StripQuotes(s) ==
    LET a == IF s # <<>> /\ s[1] = "\"" THEN Tail(s) ELSE s
    IN  IF a # <<>> /\ a[Len(a)] = "\"" THEN SubSeq(a, 1, Len(a) - 1) ELSE a

\* s[0].upper() + s[1:] if s else s
CapitalizeFirst(s) == IF s # <<>> THEN <<Upper(s[1])>> \o Tail(s) ELSE s

\* if s and not s.endswith(('.', '!', '?')): s += '.'
EnsureFinalPunct(s) ==
    IF s # <<>> /\ s[Len(s)] \notin {".", "!", "?"} THEN Append(s, ".") ELSE s

sanitize_text(t) ==
    IF t = None THEN <<>>
    ELSE LET s == Strip(t)
         IN  IF LowerStr(s) \in {SentinelNan, SentinelNone, <<>>} THEN <<>>
             ELSE EnsureFinalPunct(CapitalizeFirst(CollapseSpace(StripQuotes(s))))

\* The str arguments sanitize_text is examined with.
SanAlphabet == {"a", " ", "\"", "."}
MaxSanLen == 4
SanSentinels ==
    {None, <<"N", "a", "N">>, <<" ", "n", "o", "n", "e">>, <<"\"", "n", "a", "n", "\"">>}
SanInputs == StringsUpTo(SanAlphabet, MaxSanLen) \cup SanSentinels

InitSan ==
    /\ pc = "san_start"
    /\ text \in SanInputs
    /\ row = Idle /\ conf = Idle /\ ret = Idle /\ ret2 = Idle
    /\ desc = Idle /\ extra = Idle
    /\ STRONG_LOOKUP = Idle /\ STRONG_PATTERN = Idle
    /\ RunIdle

\* desc = sanitize_text(v)
Sanitize ==
    /\ pc = "san_start"
    /\ ret' = sanitize_text(text)
    /\ pc' = "san_once"
    /\ UNCHANGED <<text, row, conf, ret2, desc, extra, indexVars, runVars>>

\* sanitize_text applied to its own output
SanitizeAgain ==
    /\ pc = "san_once"
    /\ ret2' = sanitize_text(ret)
    /\ pc' = "san_twice"
    /\ UNCHANGED <<text, row, conf, ret, desc, extra, indexVars, runVars>>

NextSan == Sanitize \/ SanitizeAgain

SpecSan == InitSan /\ [][NextSan]_vars

\* C1: sanitize_text is idempotent: for every input string x,
\* sanitize_text(sanitize_text(x)) equals sanitize_text(x).
SanitizeIdempotent == pc = "san_twice" => ret2 = ret

(***************************************************************************)
(* Final text polish of process_csv (prep)                                 *)
(***************************************************************************)
\* re.sub(r',\s+\.', '.', desc)
RECURSIVE SubCommaSpaceDotFrom(_, _)
SubCommaSpaceDotFrom(s, i) ==
    IF i > Len(s) THEN <<>>
    ELSE LET e == SpaceRunEnd(s, i + 1)
         IN  IF s[i] = "," /\ e > i + 1 /\ e <= Len(s) /\ s[e] = "."
             THEN <<".">> \o SubCommaSpaceDotFrom(s, e + 1)
             ELSE <<s[i]>> \o SubCommaSpaceDotFrom(s, i + 1)

SubCommaSpaceDot(s) == SubCommaSpaceDotFrom(s, 1)

\* re.sub(r'\s+\.\s+', ' ', desc)
RECURSIVE SubSpaceDotSpaceFrom(_, _)
SubSpaceDotSpaceFrom(s, i) ==
    IF i > Len(s) THEN <<>>
    ELSE LET e == SpaceRunEnd(s, i)
             f == SpaceRunEnd(s, e + 1)
         IN  IF e > i /\ e <= Len(s) /\ s[e] = "." /\ f > e + 1
             THEN <<" ">> \o SubSpaceDotSpaceFrom(s, f)
             ELSE <<s[i]>> \o SubSpaceDotSpaceFrom(s, i + 1)

SubSpaceDotSpace(s) == SubSpaceDotSpaceFrom(s, 1)

\* re.sub(r'\s+\.', '.', desc)
RECURSIVE SubSpaceDotFrom(_, _)
SubSpaceDotFrom(s, i) ==
    IF i > Len(s) THEN <<>>
    ELSE LET e == SpaceRunEnd(s, i)
         IN  IF e > i /\ e <= Len(s) /\ s[e] = "."
             THEN <<".">> \o SubSpaceDotFrom(s, e + 1)
             ELSE <<s[i]>> \o SubSpaceDotFrom(s, i + 1)

SubSpaceDot(s) == SubSpaceDotFrom(s, 1)

\* re.sub(r'\.\.', '.', desc): the pattern without its "+"
RECURSIVE SubDotPairFrom(_, _)
SubDotPairFrom(s, i) ==
    IF i > Len(s) THEN <<>>
    ELSE IF s[i] = "." /\ i < Len(s) /\ s[i + 1] = "."
         THEN <<".">> \o SubDotPairFrom(s, i + 2)
         ELSE <<s[i]>> \o SubDotPairFrom(s, i + 1)

SubDotPair(s) == SubDotPairFrom(s, 1)

\* re.sub(r'\.\.+', '.', desc)
RECURSIVE SubDotRunFrom(_, _)
SubDotRunFrom(s, i) ==
    IF i > Len(s) THEN <<>>
    ELSE LET e == DotRunEnd(s, i)
         IN  IF e >= i + 2
             THEN <<".">> \o SubDotRunFrom(s, e)
             ELSE <<s[i]>> \o SubDotRunFrom(s, i + 1)

SubDotRun(s) == SubDotRunFrom(s, 1)

\* the five substitutions and the trim, in the order of the source
FinalPolish(d) ==
    Strip(CollapseSpace(SubDotRun(SubSpaceDot(SubSpaceDotSpace(SubCommaSpaceDot(d))))))

PolishAlphabet == {"a", ",", " ", "."}
MaxPolishLen == 7

InitPolish ==
    /\ pc = "pol_start"
    /\ text \in StringsUpTo(PolishAlphabet, MaxPolishLen)
    /\ row = Idle /\ conf = Idle /\ ret = Idle /\ ret2 = Idle
    /\ desc = Idle /\ extra = Idle
    /\ STRONG_LOOKUP = Idle /\ STRONG_PATTERN = Idle
    /\ RunIdle

\* the polish of process_csv, once
Polish ==
    /\ pc = "pol_start"
    /\ ret' = FinalPolish(text)
    /\ pc' = "pol_once"
    /\ UNCHANGED <<text, row, conf, ret2, desc, extra, indexVars, runVars>>

\* the same sequence applied to its own output
PolishAgain ==
    /\ pc = "pol_once"
    /\ ret2' = FinalPolish(ret)
    /\ pc' = "pol_twice"
    /\ UNCHANGED <<text, row, conf, ret, desc, extra, indexVars, runVars>>

NextPolish == Polish \/ PolishAgain

SpecPolish == InitPolish /\ [][NextPolish]_vars

\* C2: the final text polish is idempotent: applying the same sequence of
\* substitutions a second time to its own output returns an identical string.
PolishIdempotent == pc = "pol_twice" => ret2 = ret

\* a polish that rewrote its input (", ." and a run of dots) and was re-applied
PolishWitness ==
    /\ pc = "pol_twice"
    /\ text = <<"a", ",", " ", ".", ".">>
    /\ ret = <<"a", ".">>
    /\ ret2 = ret

(***************************************************************************)
(* Strong-term index and weighting                                         *)
(*                                                                         *)
(* A weight of the heavy variant is held in tenths (1.5 is 15): every      *)
(* configured weight has one decimal, which is what "{weight:.1f}" prints. *)
(* A weight of the prep variant, which is stored and never printed, is     *)
(* held in hundredths (1.75 is 175).  STRONG_TERMS is a sequence of        *)
(* entries in the insertion order of the dict.                             *)
(***************************************************************************)
\* s.strip().replace("_", " ").lower()
_normalize_phrase_spaces_lower(s) == LowerStr(ReplaceChar(Strip(s), "_", " "))

\* _normalize_phrase_spaces_lower(s).replace(" ", "_")
_snake_lower(s) == ReplaceChar(_normalize_phrase_spaces_lower(s), " ", "_")

\* STRONG_TERMS of the heavy variant
STRONG_TERMS_heavy ==
    << [term |-> <<"S", "t", "o", "n", "e", " ", "o", "c", "e", "a", "n">>, w |-> 15,
         syns |-> <<<<"s", "t", "o", "n", "e", "_", "o", "c", "e", "a", "n">>, <<"s", "t", "o", "n", "e", " ", "o", "c", "e", "a", "n">>>>],
       [term |-> <<"C", "o", "l", "u", "m", "b", "i", "a", " ", "a", "l", "t", "e", "r", "n", "a", "t", "a">>, w |-> 14,
         syns |-> <<<<"c", "o", "l", "u", "m", "b", "i", "a", "_", "a", "l", "t", "e", "r", "n", "a", "t", "a">>>>],
       [term |-> <<"b", "l", "u", "e">>, w |-> 14,
         syns |-> <<<<"a", "z", "u", "r", "e">>, <<"c", "o", "b", "a", "l", "t">>, <<"c", "e", "r", "u", "l", "e", "a", "n">>>>],
       [term |-> <<"p", "y", "r", "a", "m", "i", "d", "s">>, w |-> 14,
         syns |-> <<<<"p", "y", "r", "a", "m", "i", "d">>, <<"g", "i", "z", "a">>, <<"e", "g", "y", "p", "t", "i", "a", "n", "_", "p", "y", "r", "a", "m", "i", "d", "s">>>>],
       [term |-> <<"S", "p", "a", "c", "e">>, w |-> 14,
         syns |-> <<<<"c", "o", "s", "m", "i", "c">>, <<"g", "a", "l", "a", "c", "t", "i", "c">>, <<"a", "s", "t", "r", "a", "l">>, <<"c", "e", "l", "e", "s", "t", "i", "a", "l">>>>],
       [term |-> <<"g", "o", "l", "d">>, w |-> 15,
         syns |-> <<<<"g", "o", "l", "d", "e", "n">>>>],
       [term |-> <<"l", "o", "r", "e">>, w |-> 15,
         syns |-> <<<<"s", "t", "o", "r", "y">>, <<"s", "c", "e", "n", "i", "c">>>>] >>

\* A configuration in which one key is a prefix of another up to a word
\* boundary ("stone" and "stone ocean"), and "gold" and "golden" are two terms.
STRONG_TERMS_nested ==
    << [term |-> <<"g", "o", "l", "d">>, w |-> 15,
         syns |-> <<>>],
       [term |-> <<"g", "o", "l", "d", "e", "n">>, w |-> 14,
         syns |-> <<>>],
       [term |-> <<"s", "t", "o", "n", "e">>, w |-> 14,
         syns |-> <<>>],
       [term |-> <<"S", "t", "o", "n", "e", " ", "o", "c", "e", "a", "n">>, w |-> 15,
         syns |-> <<<<"s", "t", "o", "n", "e", "_", "o", "c", "e", "a", "n">>>>] >>

\* variants = {normalized term} | {normalized synonyms}
Variants(entry) ==
    {_normalize_phrase_spaces_lower(entry.term)}
        \cup {_normalize_phrase_spaces_lower(entry.syns[j]) : j \in DOMAIN entry.syns}

\* the loop over terms.items() of the heavy variant: on a collision the
\* entry with the higher weight is kept
RECURSIVE LookupHeavyFrom(_, _, _)
LookupHeavyFrom(terms, i, lookup) ==
    IF i > Len(terms) THEN lookup
    ELSE LET w    == terms[i].w
             put  == {v \in Variants(terms[i]) :
                         v \notin DOMAIN lookup \/ w > lookup[v].w}
             next == [v \in DOMAIN lookup \cup put |->
                         IF v \in put
                         THEN [token |-> ReplaceChar(v, " ", "_"), w |-> w]
                         ELSE lookup[v]]
         IN  LookupHeavyFrom(terms, i + 1, next)

\* sorted(lookup.keys(), key=len, reverse=True), shortest first: the sort
\* without reverse=True
RECURSIVE SortShortestFirst(_)
SortShortestFirst(keys) ==
    IF keys = {} THEN <<>>
    ELSE LET k == CHOOSE k \in keys : \A j \in keys : Len(k) <= Len(j)
         IN  <<k>> \o SortShortestFirst(keys \ {k})

\* sorted(lookup.keys(), key=len, reverse=True); keys of one length stay in
\* the order of the dict, which no match depends on
RECURSIVE SortLongestFirst(_)
SortLongestFirst(keys) ==
    IF keys = {} THEN <<>>
    ELSE LET k == CHOOSE k \in keys : \A j \in keys : Len(j) <= Len(k)
         IN  <<k>> \o SortLongestFirst(keys \ {k})

\* build_strong_index of the heavy variant
build_strong_index_heavy(terms) ==
    LET lookup == LookupHeavyFrom(terms, 1, <<>>)
    IN  [lookup |-> lookup, pattern |-> SortLongestFirst(DOMAIN lookup)]

\* The first alternative of \b(k1|k2|...)\b that matches at i, as an index
\* into keys; 0 when none does.
RECURSIVE FirstAlternative(_, _, _, _)
FirstAlternative(keys, s, i, n) ==
    IF n > Len(keys) THEN 0
    ELSE IF MatchAtCI(s, i, keys[n]) /\ WordBoundary(s, i + Len(keys[n]))
         THEN n
         ELSE FirstAlternative(keys, s, i, n + 1)

\* the length of the match of the pattern at i; 0 when there is none
PatternMatchLen(keys, s, i) ==
    IF ~WordBoundary(s, i) THEN 0
    ELSE LET n == FirstAlternative(keys, s, i, 1)
         IN  IF n = 0 THEN 0 ELSE Len(keys[n])

\* pattern.finditer(text): the matches from left to right, none overlapping
RECURSIVE FindIterFrom(_, _, _)
FindIterFrom(keys, s, i) ==
    IF i > Len(s) THEN <<>>
    ELSE LET n == PatternMatchLen(keys, s, i)
         IN  IF n > 0
             THEN <<[start |-> i, len |-> n]>> \o FindIterFrom(keys, s, i + n)
             ELSE FindIterFrom(keys, s, i + 1)

\* finditer of \b()\b, the pattern compiled from no key at all: the empty
\* match at every word boundary of the text
RECURSIVE EmptyMatchesFrom(_, _)
EmptyMatchesFrom(s, i) ==
    IF i > Len(s) + 1 THEN <<>>
    ELSE IF WordBoundary(s, i)
         THEN <<[start |-> i, len |-> 0]>> \o EmptyMatchesFrom(s, i + 1)
         ELSE EmptyMatchesFrom(s, i + 1)

FindIter(keys, s) ==
    IF keys = <<>> THEN EmptyMatchesFrom(s, 1) ELSE FindIterFrom(keys, s, 1)

\* str(n) for a natural number
RECURSIVE NatStr(_)
NatStr(n) == IF n < 10 THEN <<Digits[n + 1]>> ELSE NatStr(n \div 10) \o <<Digits[(n % 10) + 1]>>

\* TERM_WEIGHT_FORMAT.format(term=snake, weight=w): "({term}:{weight:.1f})"
WeightTag(snake, w) ==
    <<"(">> \o snake \o <<":">> \o NatStr(w \div 10) \o <<".">> \o NatStr(w % 10) \o <<")">>

\* STRONG_LOOKUP.get(key, (_snake_lower(matched), 1.0))
LookupGetHeavy(lookup, matched) ==
    LET key == _normalize_phrase_spaces_lower(matched)
    IN  IF key \in DOMAIN lookup THEN lookup[key]
        ELSE [token |-> _snake_lower(matched), w |-> 10]

\* The body of the loop of apply_term_weighting with the test of
\* processed_snake left out: every match gets its tag.
RECURSIVE TagEveryMatch(_, _, _, _, _, _)
TagEveryMatch(lookup, s, ms, k, last, processed) ==
    IF k > Len(ms) THEN <<From(s, last)>>
    ELSE LET m       == ms[k]
             matched == SubSeq(s, m.start, m.start + m.len - 1)
             e       == LookupGetHeavy(lookup, matched)
         IN  <<SubSeq(s, last, m.start - 1),
               matched \o <<" ">> \o WeightTag(e.token, e.w)>>
               \o TagEveryMatch(lookup, s, ms, k + 1, m.start + m.len, processed)

\* The loop of apply_term_weighting (heavy): the list `out` after the loop
\* and the final append.  `processed` is processed_snake.
RECURSIVE WeightLoopHeavy(_, _, _, _, _, _)
WeightLoopHeavy(lookup, s, ms, k, last, processed) ==
    IF k > Len(ms) THEN <<From(s, last)>>
    ELSE LET m       == ms[k]
             matched == SubSeq(s, m.start, m.start + m.len - 1)
             e       == LookupGetHeavy(lookup, matched)
             piece   == IF e.token \notin processed
                        THEN matched \o <<" ">> \o WeightTag(e.token, e.w)
                        ELSE matched
         IN  <<SubSeq(s, last, m.start - 1), piece>>
               \o WeightLoopHeavy(lookup, s, ms, k + 1, m.start + m.len,
                                  processed \cup {e.token})

\* apply_term_weighting of the heavy variant (the annotate policy)
apply_term_weighting_heavy(lookup, pattern, s) ==
    IF s = <<>> THEN <<>>
    ELSE JoinAll(WeightLoopHeavy(lookup, s, FindIter(pattern, s), 1, 1, {}))

\* The texts apply_term_weighting is examined with: prose without
\* parentheses, made of at most MaxWeightPieces of these pieces.
WeightPieces ==
    { <<"a">>, <<" ">>, <<"_">>, <<"g", "o", "l", "d">>, <<"g", "o", "l", "d", "e", "n">>,
      <<"G", "O", "L", "D">>, <<"s", "t", "o", "n", "e">>, <<"o", "c", "e", "a", "n">> }
MaxWeightPieces == 4
GoldenShield == <<"a", " ", "g", "o", "l", "d", "e", "n", " ", "s", "h", "i", "e", "l", "d">>
WeightTexts == PiecesUpTo(WeightPieces, MaxWeightPieces) \cup {GoldenShield}

InitWeight ==
    /\ pc = "w_import"
    /\ text \in WeightTexts
    /\ conf \in {[terms |-> STRONG_TERMS_heavy], [terms |-> STRONG_TERMS_nested]}
    /\ row = Idle /\ ret = Idle /\ ret2 = Idle
    /\ desc = Idle /\ extra = Idle
    /\ STRONG_LOOKUP = Idle /\ STRONG_PATTERN = Idle
    /\ RunIdle

\* STRONG_LOOKUP, STRONG_PATTERN = build_strong_index(STRONG_TERMS)
BuildIndexHeavy ==
    /\ pc = "w_import"
    /\ LET idx == build_strong_index_heavy(conf.terms)
       IN  /\ STRONG_LOOKUP' = idx.lookup
           /\ STRONG_PATTERN' = idx.pattern
    /\ pc' = "w_ready"
    /\ UNCHANGED <<text, row, conf, ret, ret2, desc, extra, runVars>>

\* apply_term_weighting(text); ret.matches are the matches the loop visited
ApplyWeighting ==
    /\ pc = "w_ready"
    /\ ret' = [out     |-> apply_term_weighting_heavy(STRONG_LOOKUP, STRONG_PATTERN, text),
               matches |-> IF text = <<>> THEN <<>> ELSE FindIter(STRONG_PATTERN, text)]
    /\ pc' = "w_done"
    /\ UNCHANGED <<text, row, conf, ret2, desc, extra, indexVars, runVars>>

NextWeight == BuildIndexHeavy \/ ApplyWeighting

SpecWeight == InitWeight /\ [][NextWeight]_vars

\* the configured keys that match s at i between word boundaries
KeysAt(s, i) ==
    {k \in DOMAIN STRONG_LOOKUP :
        WordBoundary(s, i) /\ MatchAtCI(s, i, k) /\ WordBoundary(s, i + Len(k))}

SetMax(S) == CHOOSE x \in S : \A y \in S : y <= x

\* C3: longest-match precedence: every match of the left-to-right scan is the
\* longest configured key that matches at its start between word boundaries,
\* matches never overlap, every position where a key matches lies in a match,
\* and "a golden shield" with keys "gold" and "golden" yields the one match
\* "golden".
LongestMatch ==
    pc = "w_done" =>
        LET ms == ret.matches IN
        /\ \A j \in DOMAIN ms :
              /\ KeysAt(text, ms[j].start) # {}
              /\ ms[j].len = SetMax({Len(k) : k \in KeysAt(text, ms[j].start)})
        /\ \A j \in 1..(Len(ms) - 1) : ms[j].start + ms[j].len <= ms[j + 1].start
        /\ \A i \in 1..Len(text) :
              KeysAt(text, i) # {} =>
                  \E j \in DOMAIN ms : ms[j].start <= i /\ i < ms[j].start + ms[j].len
        /\ (text = GoldenShield /\ <<"g", "o", "l", "d">> \in DOMAIN STRONG_LOOKUP
                /\ <<"g", "o", "l", "d", "e", "n">> \in DOMAIN STRONG_LOOKUP)
              => ms = <<[start |-> 3, len |-> 6]>>

\* "stone ocean" scanned with both "stone" and "stone ocean" configured: the
\* match is the longer key
LongestMatchWitness ==
    /\ pc = "w_done"
    /\ text = <<"s", "t", "o", "n", "e", " ", "o", "c", "e", "a", "n">>
    /\ <<"s", "t", "o", "n", "e">> \in DOMAIN STRONG_LOOKUP
    /\ ret.matches = <<[start |-> 1, len |-> 11]>>

\* the number of occurrences of p in s
CountOcc(s, p) == Cardinality({i \in 1..Len(s) : MatchAt(s, i, p)})

\* the matches of s whose representative token is tok, in scan order
MatchesOf(s, ms, tok) ==
    SelectSeq(ms, LAMBDA m :
        LookupGetHeavy(STRONG_LOOKUP, SubSeq(s, m.start, m.start + m.len - 1)).token = tok)

ISSUE_TERMS ==
    { <<"b", "l", "u", "r">>,
      <<"b", "l", "u", "r", "r", "y">>,
      <<"b", "l", "u", "r", "r", "e", "d">>,
      <<"b", "l", "u", "r", "_", "n", "o", "i", "s", "e">>,
      <<"n", "o", "i", "s", "e">>,
      <<"n", "o", "i", "s", "y">>,
      <<"a", "r", "t", "i", "f", "a", "c", "t">>,
      <<"a", "r", "t", "i", "f", "a", "c", "t", "s">>,
      <<"a", "r", "t", "i", "f", "a", "c", "t", "i", "n", "g">>,
      <<"w", "a", "t", "e", "r", "m", "a", "r", "k">>,
      <<"w", "a", "t", "e", "r", "m", "a", "r", "k", "e", "d">>,
      <<"w", "a", "t", "e", "r", "m", "a", "r", "k", "_", "t", "e", "x", "t">>,
      <<"c", "r", "o", "p", "p", "e", "d">>,
      <<"c", "r", "o", "p">>,
      <<"d", "u", "p", "l", "i", "c", "a", "t", "e">>,
      <<"d", "u", "p", "l", "i", "c", "a", "t", "e", "d">>,
      <<"j", "p", "e", "g">>,
      <<"c", "o", "m", "p", "r", "e", "s", "s", "i", "o", "n">>,
      <<"b", "a", "n", "d", "i", "n", "g">>,
      <<"p", "i", "x", "e", "l", "a", "t", "i", "o", "n">>,
      <<"p", "i", "x", "e", "l", "a", "t", "e", "d">> }

TERM_SOURCE_FIELDS_prep ==
    <<"category", "attributes", "tags", "composition", "mood", "palette", "notes">>

TERM_SOURCE_FIELDS_heavy ==
    <<"category", "attributes", "tags", "composition", "mood", "palette", "notes",
      "human_description", "llm_description">>

\* row.get(field): None for a column the row does not have
RowGet(r, field) == IF field \in DOMAIN r THEN r[field] ELSE None

\* `not v` for a value that is None or a str
Falsy(v) == v = None \/ v = <<>>

\* re.split(r"[;,]\s*", s)
RECURSIVE SplitSepFrom(_, _, _)
SplitSepFrom(s, i, cur) ==
    IF i > Len(s) THEN <<cur>>
    ELSE IF s[i] \in {";", ","}
         THEN <<cur>> \o SplitSepFrom(s, SpaceRunEnd(s, i + 1), <<>>)
         ELSE SplitSepFrom(s, i + 1, Append(cur, s[i]))

SplitSep(s) == SplitSepFrom(s, 1, <<>>)

\* any(tok in key for tok in ISSUE_TERMS)
HasIssueTerm(key) == \E tok \in ISSUE_TERMS : Contains(key, tok)

\* The loop over the values of one field with `seen` holding the readable
\* form in place of the key: the dedup without its normalization.
RECURSIVE ExtractValuesByForm(_, _, _)
ExtractValuesByForm(vals, j, acc) ==
    IF j > Len(vals) THEN acc
    ELSE LET val       == Strip(vals[j])
             human_val == ReplaceChar(val, "_", " ")
         IN  IF val = <<>> \/ human_val \in acc.seen
             THEN ExtractValuesByForm(vals, j + 1, acc)
             ELSE ExtractValuesByForm(vals, j + 1,
                      [bucket |-> Append(acc.bucket, human_val),
                       seen   |-> acc.seen \cup {human_val}])

\* The loop over the values of one field with the new form put in front of
\* the bucket: bucket.insert(0, human_val)
RECURSIVE ExtractValuesInFront(_, _, _)
ExtractValuesInFront(vals, j, acc) ==
    IF j > Len(vals) THEN acc
    ELSE LET val       == Strip(vals[j])
             human_val == ReplaceChar(val, "_", " ")
             key       == _normalize_phrase_spaces_lower(human_val)
         IN  IF val = <<>> \/ key \in acc.seen
             THEN ExtractValuesInFront(vals, j + 1, acc)
             ELSE ExtractValuesInFront(vals, j + 1,
                      [bucket |-> <<human_val>> \o acc.bucket,
                       seen   |-> acc.seen \cup {key}])

\* The loop over the values of one field (heavy): acc is (bucket, seen).
RECURSIVE ExtractValuesHeavy(_, _, _)
ExtractValuesHeavy(vals, j, acc) ==
    IF j > Len(vals) THEN acc
    ELSE LET val       == Strip(vals[j])
             human_val == ReplaceChar(val, "_", " ")
             key       == _normalize_phrase_spaces_lower(human_val)
         IN  IF val = <<>> \/ key \in acc.seen
             THEN ExtractValuesHeavy(vals, j + 1, acc)
             ELSE ExtractValuesHeavy(vals, j + 1,
                      [bucket |-> Append(acc.bucket, human_val),
                       seen   |-> acc.seen \cup {key}])

\* The loop over the values of one field with the issue test made on the
\* whole key: if key in ISSUE_TERMS: continue
RECURSIVE ExtractValuesPrepExact(_, _, _)
ExtractValuesPrepExact(vals, j, acc) ==
    IF j > Len(vals) THEN acc
    ELSE LET val       == Strip(vals[j])
             human_val == ReplaceChar(val, "_", " ")
             key       == _normalize_phrase_spaces_lower(human_val)
         IN  IF val = <<>> \/ key \in ISSUE_TERMS \/ key \in acc.seen
             THEN ExtractValuesPrepExact(vals, j + 1, acc)
             ELSE ExtractValuesPrepExact(vals, j + 1,
                      [bucket |-> Append(acc.bucket, human_val),
                       seen   |-> acc.seen \cup {key}])

\* The loop over the values of one field (prep): a value whose key holds an
\* issue term is skipped.
RECURSIVE ExtractValuesPrep(_, _, _)
ExtractValuesPrep(vals, j, acc) ==
    IF j > Len(vals) THEN acc
    ELSE LET val       == Strip(vals[j])
             human_val == ReplaceChar(val, "_", " ")
             key       == _normalize_phrase_spaces_lower(human_val)
         IN  IF val = <<>> \/ HasIssueTerm(key) \/ key \in acc.seen
             THEN ExtractValuesPrep(vals, j + 1, acc)
             ELSE ExtractValuesPrep(vals, j + 1,
                      [bucket |-> Append(acc.bucket, human_val),
                       seen   |-> acc.seen \cup {key}])

\* the loop over TERM_SOURCE_FIELDS (heavy)
RECURSIVE ExtractFieldsHeavy(_, _, _)
ExtractFieldsHeavy(r, f, acc) ==
    IF f > Len(TERM_SOURCE_FIELDS_heavy) THEN acc
    ELSE LET v == RowGet(r, TERM_SOURCE_FIELDS_heavy[f])
         IN  IF Falsy(v) THEN ExtractFieldsHeavy(r, f + 1, acc)
             ELSE ExtractFieldsHeavy(r, f + 1, ExtractValuesHeavy(SplitSep(v), 1, acc))

\* the loop over TERM_SOURCE_FIELDS (prep)
RECURSIVE ExtractFieldsPrep(_, _, _)
ExtractFieldsPrep(r, f, acc) ==
    IF f > Len(TERM_SOURCE_FIELDS_prep) THEN acc
    ELSE LET v == RowGet(r, TERM_SOURCE_FIELDS_prep[f])
         IN  IF Falsy(v) THEN ExtractFieldsPrep(r, f + 1, acc)
             ELSE ExtractFieldsPrep(r, f + 1, ExtractValuesPrep(SplitSep(v), 1, acc))

\* `bucket` at the return of extract_strong_terms
BucketHeavy(r) == ExtractFieldsHeavy(r, 1, [bucket |-> <<>>, seen |-> {}]).bucket
BucketPrep(r) == ExtractFieldsPrep(r, 1, [bucket |-> <<>>, seen |-> {}]).bucket

\* extract_strong_terms: " ".join(bucket).strip()
extract_strong_terms_heavy(r) == Strip(JoinSpace(BucketHeavy(r)))
extract_strong_terms_prep(r) == Strip(JoinSpace(BucketPrep(r)))

\* The rows extract_strong_terms is examined with: `category` is made of at
\* most MaxExtractPieces pieces, `tags` is absent or one of a few values,
\* every other column is absent.
ExtractPieces == { <<"a">>, <<"B">>, <<"_">>, <<" ">>, <<",">>, <<"b", "l", "u", "r">> }
MaxExtractPieces == 4
ExtractTags ==
    { <<>>, <<"a", "_", "B">>, <<"A", " ", "b">>, <<"n", "a", "n">>, <<"N", "o", "n", "e">>,
      <<"a", " ", "B", ";", " ", "b", "l", "u", "r", "_", "n", "o", "i", "s", "e", ",", "x">> }
ExtractRows ==
    LET cats == PiecesUpTo(ExtractPieces, MaxExtractPieces) \cup {<<"N", "a", "N">>}
    IN  {[category |-> c] : c \in cats}
            \cup {[category |-> c, tags |-> t] : c \in cats, t \in ExtractTags}

InitExtract ==
    /\ pc = "x_start"
    /\ row \in ExtractRows
    /\ text = Idle /\ conf = Idle /\ ret = Idle /\ ret2 = Idle
    /\ desc = Idle /\ extra = Idle
    /\ STRONG_LOOKUP = Idle /\ STRONG_PATTERN = Idle
    /\ RunIdle

\* extra = extract_strong_terms(row), heavy variant
ExtractHeavy ==
    /\ pc = "x_start"
    /\ ret' = [tokens |-> BucketHeavy(row), out |-> extract_strong_terms_heavy(row)]
    /\ pc' = "x_heavy"
    /\ UNCHANGED <<text, row, conf, ret2, desc, extra, indexVars, runVars>>

\* extra = extract_strong_terms(row), prep variant
ExtractPrep ==
    /\ pc = "x_start"
    /\ ret' = [tokens |-> BucketPrep(row), out |-> extract_strong_terms_prep(row)]
    /\ pc' = "x_prep"
    /\ UNCHANGED <<text, row, conf, ret2, desc, extra, indexVars, runVars>>

NextExtract == ExtractHeavy \/ ExtractPrep

SpecExtract == InitExtract /\ [][NextExtract]_vars

IsAbsent(v) == v = None \/ LowerStr(Strip(v)) \in {SentinelNan, SentinelNone, <<>>}

\* the row without the columns whose value is absent
WithoutAbsent(r) == [f \in {g \in DOMAIN r : ~IsAbsent(r[g])} |-> r[f]]

\* C9: a term-source field whose value is missing, None, empty or
\* "nan"/"none" in any casing is treated as empty: it contributes no token.
AbsentContributesNothing ==
    /\ pc = "x_heavy" => ret.tokens = BucketHeavy(WithoutAbsent(row))
    /\ pc = "x_prep" => ret.tokens = BucketPrep(WithoutAbsent(row))

(***************************************************************************)
(* scrub_quality_language (prep)                                           *)
(***************************************************************************)
\* _SENTENCE_SPLIT.split(text): re.split(r'(?<=[.!?])\s+', text)
RECURSIVE SplitSentencesFrom(_, _, _)
SplitSentencesFrom(s, i, cur) ==
    IF i > Len(s) THEN <<cur>>
    ELSE IF IsSpace(s[i]) /\ i > 1 /\ s[i - 1] \in {".", "!", "?"}
         THEN <<cur>> \o SplitSentencesFrom(s, SpaceRunEnd(s, i), <<>>)
         ELSE SplitSentencesFrom(s, i + 1, Append(cur, s[i]))

SplitSentences(s) == SplitSentencesFrom(s, 1, <<>>)

\* any(tok in sent for tok in ISSUE_TERMS): the test without .lower()
SentenceHasIssueCased(sent) == \E tok \in ISSUE_TERMS : Contains(sent, tok)

\* any(tok in sent.lower() for tok in ISSUE_TERMS)
SentenceHasIssue(sent) == \E tok \in ISSUE_TERMS : Contains(LowerStr(sent), tok)

\* s.strip() for s in kept if s.strip()
StripNonEmpty(parts) ==
    LET stripped == [k \in DOMAIN parts |-> Strip(parts[k])]
    IN  SelectSeq(stripped, LAMBDA x : x # <<>>)

\* scrub_quality_language: the pair (text, removed)
scrub_quality_language(t) ==
    IF t = <<>> THEN [text |-> t, removed |-> FALSE]
    ELSE LET sents == SplitSentences(t)
             kept  == SelectSeq(sents, LAMBDA x : ~SentenceHasIssue(x))
         IN  [text    |-> JoinSpace(StripNonEmpty(kept)),
              removed |-> Len(kept) < Len(sents)]

\* The texts scrub_quality_language is examined with.
ScrubPieces == { <<"a">>, <<" ">>, <<".">>, <<"B", "l", "u", "r">>, <<"n", "o", "i">>, <<"s", "e">> }
MaxScrubPieces == 5

InitScrub ==
    /\ pc = "q_start"
    /\ text \in PiecesUpTo(ScrubPieces, MaxScrubPieces)
    /\ row = Idle /\ conf = Idle /\ ret = Idle /\ ret2 = Idle
    /\ desc = Idle /\ extra = Idle
    /\ STRONG_LOOKUP = Idle /\ STRONG_PATTERN = Idle
    /\ RunIdle

\* cleaned, _ = scrub_quality_language(weighted)
ScrubQuality ==
    /\ pc = "q_start"
    /\ ret' = scrub_quality_language(text)
    /\ pc' = "q_done"
    /\ UNCHANGED <<text, row, conf, ret2, desc, extra, indexVars, runVars>>

\* the scrub applied to its own output
ScrubQualityAgain ==
    /\ pc = "q_done"
    /\ ret2' = scrub_quality_language(ret.text)
    /\ pc' = "q_twice"
    /\ UNCHANGED <<text, row, conf, ret, desc, extra, indexVars, runVars>>

NextScrub == ScrubQuality \/ ScrubQualityAgain

SpecScrub == InitScrub /\ [][NextScrub]_vars

\* C5: the text returned by scrub_quality_language holds no issue-vocabulary
\* item as a case-insensitive substring, for zero, one or many sentences;
\* a sentence was dropped exactly when the input held one.
NoIssueTermSurvives ==
    pc \in {"q_done", "q_twice"} =>
        /\ \A tok \in ISSUE_TERMS : ~Contains(LowerStr(ret.text), tok)
        /\ ret.removed = (\E tok \in ISSUE_TERMS : Contains(LowerStr(text), tok))

\* two sentences, the second with an issue term in capitals, dropped whole
NoIssueTermSurvivesWitness ==
    /\ pc = "q_done"
    /\ text = <<"a", ".", " ", "B", "l", "u", "r">>
    /\ ret = [text |-> <<"a", ".">>, removed |-> TRUE]

(***************************************************************************)
(* scrub_junk_phrases (prep)                                               *)
(***************************************************************************)
JUNK_PHRASES ==
    << <<"o", "t", "h", "e", "r", " ", "c", "a", "t", "e", "g", "o", "r", "y">>,
       <<"o", "t", "h", "e", "r", " ", "t", "a", "g", "s">>,
       <<"o", "t", "h", "e", "r", " ", "a", "t", "t", "r", "i", "b", "u", "t", "e", "s">>,
       <<"o", "t", "h", "e", "r", " ", "m", "o", "o", "d">>,
       <<"o", "t", "h", "e", "r", " ", "p", "a", "l", "e", "t", "t", "e">>,
       <<"o", "t", "h", "e", "r", " ", "c", "o", "m", "p", "o", "s", "i", "t", "i", "o", "n">>,
       <<"m", "i", "s", "c">>,
       <<"m", "i", "s", "c", "e", "l", "l", "a", "n", "e", "o", "u", "s">>,
       <<"b", "a", "d", " ", "q", "u", "a", "l", "i", "t", "y">> >>

\* re.sub(r'\b' + re.escape(phrase) + r'\b(?:,\s*)?', '', text, flags=re.IGNORECASE)
RECURSIVE RemovePhraseFrom(_, _, _)
RemovePhraseFrom(s, phrase, i) ==
    IF i > Len(s) THEN <<>>
    ELSE LET e == i + Len(phrase)
         IN  IF WordBoundary(s, i) /\ MatchAtCI(s, i, phrase) /\ WordBoundary(s, e)
             THEN RemovePhraseFrom(s, phrase,
                      IF e <= Len(s) /\ s[e] = "," THEN SpaceRunEnd(s, e + 1) ELSE e)
             ELSE <<s[i]>> \o RemovePhraseFrom(s, phrase, i + 1)

RemovePhrase(s, phrase) == RemovePhraseFrom(s, phrase, 1)

\* for phrase in JUNK_PHRASES: text = re.sub(...)
RECURSIVE RemovePhrases(_, _, _)
RemovePhrases(s, phrases, k) ==
    IF k > Len(phrases) THEN s
    ELSE RemovePhrases(RemovePhrase(s, phrases[k]), phrases, k + 1)

\* re.sub(r',\s*,', ',', text)
RECURSIVE SubCommaCommaFrom(_, _)
SubCommaCommaFrom(s, i) ==
    IF i > Len(s) THEN <<>>
    ELSE LET e == SpaceRunEnd(s, i + 1)
         IN  IF s[i] = "," /\ e <= Len(s) /\ s[e] = ","
             THEN <<",">> \o SubCommaCommaFrom(s, e + 1)
             ELSE <<s[i]>> \o SubCommaCommaFrom(s, i + 1)

SubCommaComma(s) == SubCommaCommaFrom(s, 1)

\* the body of scrub_junk_phrases for a given value of the global JUNK_PHRASES
ScrubJunkWith(t, phrases) ==
    IF t = <<>> THEN t
    ELSE SubCommaComma(Strip(CollapseSpace(RemovePhrases(t, phrases, 1))))

scrub_junk_phrases(t) == ScrubJunkWith(t, JUNK_PHRASES)

\* The texts scrub_junk_phrases is examined with.
JunkPieces ==
    { <<" ">>, <<",">>, <<"b", "a", "d">>, <<"m", "i", "s", "c", " ">>, <<"q", "u", "a", "l", "i", "t", "y">>,
      <<"O", "t", "h", "e", "r", " ", "c", "a", "t", "e", "g", "o", "r", "y">>, <<"n", "i", "c", "e", " ", "v", "i", "e", "w">> }
MaxJunkPieces == 4

InitJunk ==
    /\ pc = "j_start"
    /\ text \in PiecesUpTo(JunkPieces, MaxJunkPieces)
    /\ row = Idle /\ conf = Idle /\ ret = Idle /\ ret2 = Idle
    /\ desc = Idle /\ extra = Idle
    /\ STRONG_LOOKUP = Idle /\ STRONG_PATTERN = Idle
    /\ RunIdle

\* cleaned = scrub_junk_phrases(cleaned)
ScrubJunk ==
    /\ pc = "j_start"
    /\ ret' = scrub_junk_phrases(text)
    /\ pc' = "j_done"
    /\ UNCHANGED <<text, row, conf, ret2, desc, extra, indexVars, runVars>>

\* the strip applied to its own output
ScrubJunkAgain ==
    /\ pc = "j_done"
    /\ ret2' = scrub_junk_phrases(ret)
    /\ pc' = "j_twice"
    /\ UNCHANGED <<text, row, conf, ret, desc, extra, indexVars, runVars>>

NextJunk == ScrubJunk \/ ScrubJunkAgain

SpecJunk == InitJunk /\ [][NextJunk]_vars

\* phrase occurs in s between word boundaries, letters compared without case
OccursAsWords(s, phrase) ==
    \E i \in 1..Len(s) :
        WordBoundary(s, i) /\ MatchAtCI(s, i, phrase) /\ WordBoundary(s, i + Len(phrase))

\* C6: scrub_junk_phrases fully removes every configured junk phrase: the
\* returned text holds no case-insensitive occurrence of a junk phrase
\* between word boundaries, and "Other category, nice view" yields
\* "nice view".
JunkFullyRemoved ==
    pc = "j_done" =>
        /\ \A k \in DOMAIN JUNK_PHRASES : ~OccursAsWords(ret, JUNK_PHRASES[k])
        /\ text = <<"O", "t", "h", "e", "r", " ", "c", "a", "t", "e", "g", "o", "r", "y", ",", " ", "n", "i", "c", "e", " ", "v", "i", "e", "w">> => ret = <<"n", "i", "c", "e", " ", "v", "i", "e", "w">>

(***************************************************************************)
(* The prep variant: index, weighting by replacement, generate_description *)
(* and the caption steps of process_csv                                    *)
(***************************************************************************)
\* STRONG_TERMS of the prep variant
STRONG_TERMS_prep ==
    << [term |-> <<"S", "t", "o", "n", "e", " ", "o", "c", "e", "a", "n">>, w |-> 175,
        syns |-> <<<<"s", "t", "o", "n", "e", "_", "o", "c", "e", "a", "n">>, <<"s", "t", "o", "n", "e", " ", "o", "c", "e", "a", "n">>>>] >>

\* the strong terms of the end-to-end scenario: {"blue": (1.4, [])}
STRONG_TERMS_scenario == << [term |-> <<"b", "l", "u", "e">>, w |-> 140, syns |-> <<>>] >>

TRIGGER_WORD == <<"m", "y", "_", "t", "r", "i", "g", "g", "e", "r", "_", "w", "o", "r", "d">>
MANDATORY_CONCEPT == <<"s", "t", "o", "n", "e", " ", "o", "c", "e", "a", "n">>

\* the loop over terms.items() of the prep variant: lookup[v] = (v, w), a
\* later term overwriting an earlier one
RECURSIVE LookupPrepFrom(_, _, _)
LookupPrepFrom(terms, i, lookup) ==
    IF i > Len(terms) THEN lookup
    ELSE LET put  == Variants(terms[i])
             next == [v \in DOMAIN lookup \cup put |->
                         IF v \in put THEN [token |-> v, w |-> terms[i].w]
                         ELSE lookup[v]]
         IN  LookupPrepFrom(terms, i + 1, next)

\* build_strong_index of the prep variant
build_strong_index_prep(terms) ==
    LET lookup == LookupPrepFrom(terms, 1, <<>>)
    IN  [lookup |-> lookup, pattern |-> SortLongestFirst(DOMAIN lookup)]

\* the loop of apply_term_weighting (prep): the list `out`
RECURSIVE WeightLoopPrep(_, _, _, _, _)
WeightLoopPrep(lookup, s, ms, k, last) ==
    IF k > Len(ms) THEN <<From(s, last)>>
    ELSE LET m       == ms[k]
             matched == SubSeq(s, m.start, m.start + m.len - 1)
             key     == _normalize_phrase_spaces_lower(matched)
             syntax  == IF key \in DOMAIN lookup THEN lookup[key].token ELSE matched
         IN  <<SubSeq(s, last, m.start - 1), syntax>>
               \o WeightLoopPrep(lookup, s, ms, k + 1, m.start + m.len)

\* apply_term_weighting of the prep variant (the replace policy)
apply_term_weighting_prep(lookup, pattern, s) ==
    IF s = <<>> THEN <<>>
    ELSE JoinAll(WeightLoopPrep(lookup, s, FindIter(pattern, s), 1, 1))

\* the loop over ["llm_description", "human_description"] of generate_description
DescribeRow(r) ==
    LET llm   == RowGet(r, "llm_description")
        human == RowGet(r, "human_description")
        d1    == IF Falsy(llm) THEN <<>> ELSE sanitize_text(llm)
    IN  IF d1 # <<>> THEN d1
        ELSE IF Falsy(human) THEN d1 ELSE sanitize_text(human)

\* combined = f"{desc} {extra}".strip() if extra else desc
Combine(d, e) == IF e # <<>> THEN Strip(d \o <<" ">> \o e) ELSE d

\* generate_description of the prep variant
generate_description_prep(lookup, pattern, r) ==
    LET combined == Combine(DescribeRow(r), extract_strong_terms_prep(r))
        weighted == apply_term_weighting_prep(lookup, pattern, combined)
        cleaned  == scrub_quality_language(weighted).text
    IN  scrub_junk_phrases(cleaned)

\* the trigger put after the text: desc = f"{desc} {TRIGGER_WORD}"
InjectTriggerAfter(d, trigger) ==
    IF trigger # <<>> /\ ~Contains(d, trigger) THEN d \o <<" ">> \o trigger ELSE d

\* the presence check made without regard to case:
\* if TRIGGER_WORD and TRIGGER_WORD.lower() not in desc.lower()
InjectTriggerAnyCase(d, trigger) ==
    IF trigger # <<>> /\ ~Contains(LowerStr(d), LowerStr(trigger))
    THEN trigger \o <<" ">> \o d
    ELSE d

\* the trigger put in front without the presence check:
\* if TRIGGER_WORD: desc = f"{TRIGGER_WORD} {desc}"
InjectTriggerAlways(d, trigger) ==
    IF trigger # <<>> THEN trigger \o <<" ">> \o d ELSE d

\* if TRIGGER_WORD and TRIGGER_WORD not in desc: desc = f"{TRIGGER_WORD} {desc}"
InjectTrigger(d, trigger) ==
    IF trigger # <<>> /\ ~Contains(d, trigger) THEN trigger \o <<" ">> \o d ELSE d

\* the presence check made with regard to case:
\* if MANDATORY_CONCEPT and MANDATORY_CONCEPT not in desc
InjectConceptCased(d, concept) ==
    IF concept # <<>> /\ ~Contains(d, concept)
    THEN Strip(d) \o <<" ">> \o concept
    ELSE d

\* if MANDATORY_CONCEPT and MANDATORY_CONCEPT.lower() not in desc.lower():
\*     desc = desc.strip() + " " + MANDATORY_CONCEPT
InjectConcept(d, concept) ==
    IF concept # <<>> /\ ~Contains(LowerStr(d), LowerStr(concept))
    THEN Strip(d) \o <<" ">> \o concept
    ELSE d

\* the configuration of the source, the configuration of the end-to-end
\* scenario, and the source's with the trigger and the concept left empty
CodeConf ==
    [terms |-> STRONG_TERMS_prep, trigger |-> TRIGGER_WORD, concept |-> MANDATORY_CONCEPT]
ScenarioConf ==
    [terms |-> STRONG_TERMS_scenario, trigger |-> <<"t", "r", "i", "g">>,
     concept |-> <<"s", "t", "o", "n", "e", " ", "o", "c", "e", "a", "n">>]
BareConf == [terms |-> STRONG_TERMS_prep, trigger |-> <<>>, concept |-> <<>>]
\* a trigger that holds the concept phrase
OverlapConf ==
    [terms |-> STRONG_TERMS_prep, trigger |-> <<"o", "c", "e", "a", "n", "_", "l", "o", "r", "a">>, concept |-> <<"O", "c", "e", "a", "n">>]

\* the rows the caption steps are examined with; None is an absent column
PipeLlm ==
    { None, <<"a", " ", "w", "i", "d", "e", " ", "s", "h", "o", "t", " ", "o", "f", " ", "b", "l", "u", "e", " ", "p", "y", "r", "a", "m", "i", "d", "s">>,
      <<"n", "a", "n">>,
      <<"A", " ", "b", "l", "u", "r", "r", "y", " ", "p", "h", "o", "t", "o", ".", " ", "t", "r", "i", "g", " ", "B", "l", "u", "e", " ", "s", "k", "y">>,
      <<"m", "i", "s", "c">>,
      <<"s", "k", "y", " ", "w", "i", "t", "h", " ", "t", "r", "i", "g">>,
      <<"t", "r", "i", "g", " ", "s", "k", "y">>,
      <<".", "x">> }
PipeHuman == { None, <<"s", "t", "o", "n", "e", " ", "o", "c", "e", "a", "n", " ", "a", "t", " ", "n", "i", "g", "h", "t">> }
PipeCategory ==
    { None, <<"S", "t", "o", "n", "e", "_", "o", "c", "e", "a", "n", ",", " ", "b", "l", "u", "r", "r", "y">>,
      <<"n", "a", "n">>,
      <<"B", "l", "u", "e", ";", " ", "o", "t", "h", "e", "r", " ", "t", "a", "g", "s">> }
PipeRow(l, h, c) ==
    LET cols == {x \in {<<"llm_description", l>>, <<"human_description", h>>,
                        <<"category", c>>} : x[2] # None}
    IN  [f \in {x[1] : x \in cols} |-> (CHOOSE x \in cols : x[1] = f)[2]]
PipeRows == {PipeRow(l, h, c) : l \in PipeLlm, h \in PipeHuman, c \in PipeCategory}

ScenarioRow ==
    [category |-> <<"S", "t", "o", "n", "e", "_", "o", "c", "e", "a", "n", ",", " ", "b", "l", "u", "r", "r", "y">>,
     llm_description |-> <<"a", " ", "w", "i", "d", "e", " ", "s", "h", "o", "t", " ", "o", "f", " ", "b", "l", "u", "e", " ", "p", "y", "r", "a", "m", "i", "d", "s">>]

InitPipe ==
    /\ pc = "p_import"
    /\ row \in PipeRows
    /\ conf \in {CodeConf, ScenarioConf, BareConf, OverlapConf}
    /\ text = Idle /\ ret = Idle /\ ret2 = Idle
    /\ desc = <<>> /\ extra = Idle
    /\ STRONG_LOOKUP = Idle /\ STRONG_PATTERN = Idle
    /\ RunIdle

\* STRONG_LOOKUP, STRONG_PATTERN = build_strong_index(STRONG_TERMS)
ImportPrep ==
    /\ pc = "p_import"
    /\ LET idx == build_strong_index_prep(conf.terms)
       IN  /\ STRONG_LOOKUP' = idx.lookup
           /\ STRONG_PATTERN' = idx.pattern
    /\ pc' = "p_describe"
    /\ UNCHANGED <<text, row, conf, ret, ret2, desc, extra, runVars>>

\* generate_description: the description fields
Describe ==
    /\ pc = "p_describe"
    /\ desc' = DescribeRow(row)
    /\ pc' = "p_extract"
    /\ UNCHANGED <<text, row, conf, ret, ret2, extra, indexVars, runVars>>

\* extra = extract_strong_terms(row)
ExtractTerms ==
    /\ pc = "p_extract"
    /\ extra' = extract_strong_terms_prep(row)
    /\ pc' = "p_weight"
    /\ UNCHANGED <<text, row, conf, ret, ret2, desc, indexVars, runVars>>

\* weighted = apply_term_weighting(combined)
WeightTerms ==
    /\ pc = "p_weight"
    /\ desc' = apply_term_weighting_prep(STRONG_LOOKUP, STRONG_PATTERN, Combine(desc, extra))
    /\ pc' = "p_scrub"
    /\ UNCHANGED <<text, row, conf, ret, ret2, extra, indexVars, runVars>>

\* cleaned, _ = scrub_quality_language(weighted)
ScrubQualityStep ==
    /\ pc = "p_scrub"
    /\ desc' = scrub_quality_language(desc).text
    /\ pc' = "p_junk"
    /\ UNCHANGED <<text, row, conf, ret, ret2, extra, indexVars, runVars>>

\* cleaned = scrub_junk_phrases(cleaned); return cleaned
ScrubJunkStep ==
    /\ pc = "p_junk"
    /\ desc' = scrub_junk_phrases(desc)
    /\ pc' = "p_generated"
    /\ UNCHANGED <<text, row, conf, ret, ret2, extra, indexVars, runVars>>

\* if not desc: continue
SkipEmpty ==
    /\ pc = "p_generated"
    /\ desc = <<>>
    /\ pc' = "p_skipped"
    /\ UNCHANGED <<text, row, conf, ret, ret2, desc, extra, indexVars, runVars>>

\* Apply Trigger Word
TriggerStep ==
    /\ pc = "p_generated"
    /\ desc # <<>>
    /\ desc' = InjectTrigger(desc, conf.trigger)
    /\ pc' = "p_concept"
    /\ UNCHANGED <<text, row, conf, ret, ret2, extra, indexVars, runVars>>

\* Ensure Mandatory Concept Tag is present
ConceptStep ==
    /\ pc = "p_concept"
    /\ desc' = InjectConcept(desc, conf.concept)
    /\ pc' = "p_polish"
    /\ UNCHANGED <<text, row, conf, ret, ret2, extra, indexVars, runVars>>

\* Final Text Polish, and fo.write(desc): ret is the caption file's content
PolishStep ==
    /\ pc = "p_polish"
    /\ desc' = FinalPolish(desc)
    /\ ret' = FinalPolish(desc)
    /\ pc' = "p_written"
    /\ UNCHANGED <<text, row, conf, ret2, extra, indexVars, runVars>>

NextPipe ==
    \/ ImportPrep \/ Describe \/ ExtractTerms \/ WeightTerms \/ ScrubQualityStep
    \/ ScrubJunkStep \/ SkipEmpty \/ TriggerStep \/ ConceptStep \/ PolishStep

SpecPipe == InitPipe /\ [][NextPipe]_vars

\* s.startswith(p)
StartsWith(s, p) == MatchAt(s, 1, p)

InScenario == pc = "p_written" /\ row = ScenarioRow /\ conf = ScenarioConf

\* C8 as stated: the scenario's caption starts with "trig ", does not contain
\* "blurry", contains "blue", and contains "stone ocean".
ScenarioCaptionLiteral ==
    InScenario =>
        /\ StartsWith(ret, <<"t", "r", "i", "g", " ">>)
        /\ ~Contains(ret, <<"b", "l", "u", "r", "r", "y">>)
        /\ Contains(ret, <<"b", "l", "u", "e">>)
        /\ Contains(ret, <<"s", "t", "o", "n", "e", " ", "o", "c", "e", "a", "n">>)

\* C8 as amended: the scenario's caption starts with "trig ", does not
\* contain "blurry", contains "blue", and contains the concept without regard
\* to case: it holds "Stone ocean", the readable form of the category value.
ScenarioCaption ==
    InScenario =>
        /\ StartsWith(ret, <<"t", "r", "i", "g", " ">>)
        /\ ~Contains(ret, <<"b", "l", "u", "r", "r", "y">>)
        /\ Contains(ret, <<"b", "l", "u", "e">>)
        /\ Contains(LowerStr(ret), <<"s", "t", "o", "n", "e", " ", "o", "c", "e", "a", "n">>)
        /\ Contains(ret, <<"S", "t", "o", "n", "e", " ", "o", "c", "e", "a", "n">>)

\* the caption written for the scenario's row
ScenarioCaptionWitness ==
    /\ InScenario
    /\ ret = <<"t", "r", "i", "g", " ", "A", " ", "w", "i", "d", "e", " ", "s", "h", "o", "t", " ", "o", "f", " ", "b", "l", "u", "e", " ", "p", "y", "r", "a", "m", "i", "d", "s", ".", " ", "S", "t", "o", "n", "e", " ", "o", "c", "e", "a", "n">>

\* s.endswith(p)
EndsWith(s, p) == Len(p) <= Len(s) /\ MatchAt(s, Len(s) - Len(p) + 1, p)

\* what generate_description returned for the row of a written caption
Generated == generate_description_prep(STRONG_LOOKUP, STRONG_PATTERN, row)

\* the text the concept's presence check is made on
Augmented == InjectTrigger(Generated, conf.trigger)

\* the concept (any case) is in the trigger-augmented text
ConceptFound == Contains(LowerStr(Augmented), LowerStr(conf.concept))

\* C12: with a mandatory concept configured, every written caption holds the
\* concept without regard to case; the caption is the polished
\* trigger-augmented text when that text holds the concept, and otherwise the
\* polished text with " <concept>" appended, which then ends the caption.
ConceptPresent ==
    (pc = "p_written" /\ conf.concept # <<>>) =>
        /\ Contains(LowerStr(ret), LowerStr(conf.concept))
        /\ ConceptFound =>
              /\ ret = FinalPolish(Augmented)
              /\ ret # FinalPolish(Strip(Augmented) \o <<" ">> \o conf.concept)
        /\ ~ConceptFound =>
              /\ ret = FinalPolish(Strip(Augmented) \o <<" ">> \o conf.concept)
              /\ EndsWith(ret, conf.concept)

\* a caption whose concept is found in the injected trigger only: nothing is
\* appended
ConceptPresentWitness ==
    /\ pc = "p_written" /\ conf = OverlapConf
    /\ ~Contains(LowerStr(Generated), LowerStr(conf.concept))
    /\ ConceptFound
    /\ ~EndsWith(ret, conf.concept)

TriggerStepTaken == pc = "p_generated" /\ pc' = "p_concept"

\* C21: in the trigger step, when a trigger is configured and the text does
\* not hold it as a case-sensitive substring, the text becomes the trigger,
\* one space and the unchanged text; when the text holds the trigger already,
\* or no trigger is configured, the step leaves the text unchanged.
TriggerInjection ==
    [][TriggerStepTaken =>
          IF conf.trigger # <<>> /\ ~Contains(desc, conf.trigger)
          THEN desc' = conf.trigger \o <<" ">> \o desc
          ELSE desc' = desc]_vars

\* the trigger was put in front of a text that holds it in another case
TriggerInjectionWitness ==
    /\ pc = "p_concept" /\ conf.trigger # <<>>
    /\ Contains(LowerStr(Generated), LowerStr(conf.trigger))
    /\ desc = conf.trigger \o <<" ">> \o Generated

(***************************************************************************)
(* matches_filters                                                         *)
(***************************************************************************)
\* the value of a str of decimal digits
RECURSIVE DigitsValue(_)
DigitsValue(s) ==
    IF s = <<>> THEN 0
    ELSE DigitsValue(SubSeq(s, 1, Len(s) - 1)) * 10 + (IndexOf(Digits, s[Len(s)]) - 1)

\* float(v) for v None or a str of letters, digits and whitespace: a number,
\* the float nan, or the exception (TypeError for None, ValueError for a str
\* that is no literal)
FloatOf(v) ==
    IF v = None THEN [kind |-> "error"]
    ELSE LET s == Strip(v)
         IN  IF s = <<>> THEN [kind |-> "error"]
             ELSE IF LowerStr(s) = SentinelNan THEN [kind |-> "nan"]
             ELSE IF \A i \in DOMAIN s : s[i] \in DigitSet
                  THEN [kind |-> "num", val |-> DigitsValue(s)]
                  ELSE [kind |-> "error"]

\* float(row.get(column, 0))
FloatGet(r, column) ==
    IF column \in DOMAIN r THEN FloatOf(r[column]) ELSE [kind |-> "num", val |-> 0]

\* a < b for floats: every comparison with nan is False
FloatLess(a, b) == a.kind = "num" /\ a.val < b

\* str(row.get(column, ""))
StrGet(r, column) ==
    IF column \notin DOMAIN r THEN <<>>
    ELSE IF r[column] = None THEN <<"N", "o", "n", "e">>
    ELSE r[column]

\* the loop over extra_filters.items() (heavy)
RECURSIVE ExtraFiltersPass(_, _, _)
ExtraFiltersPass(r, filters, k) ==
    IF k > Len(filters) THEN TRUE
    ELSE LET allowed   == filters[k].allowed
             col_value == LowerStr(StrGet(r, filters[k].column))
         IN  IF allowed # <<>>
                  /\ ~\E a \in DOMAIN allowed : Contains(col_value, LowerStr(allowed[a]))
             THEN FALSE
             ELSE ExtraFiltersPass(r, filters, k + 1)

\* matches_filters of the heavy variant
matches_filters_heavy(r, min_style, min_quality, extra_filters) ==
    LET style   == FloatGet(r, "style_match")
        quality == FloatGet(r, "quality")
    IN  IF style.kind = "error" THEN FALSE
        ELSE IF FloatLess(style, min_style) THEN FALSE
        ELSE IF quality.kind = "error" THEN FALSE
        ELSE IF FloatLess(quality, min_quality) THEN FALSE
        ELSE ExtraFiltersPass(r, extra_filters, 1)

\* combined_text of matches_filters (prep)
CombinedText(r) ==
    LowerStr(StrGet(r, "file_name") \o <<" ">> \o StrGet(r, "category") \o <<" ">>
        \o StrGet(r, "tags") \o <<" ">> \o StrGet(r, "human_description") \o <<" ">>
        \o StrGet(r, "llm_description") \o <<" ">> \o StrGet(r, "notes") \o <<" ">>
        \o StrGet(r, "attributes") \o <<" ">> \o StrGet(r, "mood") \o <<" ">>
        \o StrGet(r, "palette"))

\* found_match of matches_filters (prep)
FoundMatch(r, terms) ==
    \E t \in DOMAIN terms :
        \/ Contains(CombinedText(r), LowerStr(terms[t].term))
        \/ \E j \in DOMAIN terms[t].syns :
              Contains(CombinedText(r), LowerStr(terms[t].syns[j]))

\* matches_filters of the prep variant: an exception of float() is passed over
matches_filters_prep(r, min_style, min_quality, terms) ==
    LET s_score == FloatGet(r, "style_match")
        q_score == FloatGet(r, "quality")
    IN  IF ~FoundMatch(r, terms) THEN FALSE
        ELSE IF s_score.kind = "error" \/ q_score.kind = "error" THEN TRUE
        ELSE ~(FloatLess(s_score, min_style) \/ FloatLess(q_score, min_quality))

\* The rows matches_filters is examined with.  Missing is a column the row
\* does not have; None is the value DictReader gives a short row.
Missing == <<"missing column">>
FilterValues ==
    { Missing, None, <<>>, <<" ">>, <<"a">>, <<"0">>, <<"1">>, <<"3">>,
      <<" ", "3", " ">>, <<"1", "2">>, <<"n", "a", "n">>, <<"3", "a">> }
FilterRow(c, s, q) ==
    LET cols == {x \in {<<"category", c>>, <<"style_match", s>>, <<"quality", q>>} :
                    x[2] # Missing}
    IN  [f \in {x[1] : x \in cols} |-> (CHOOSE x \in cols : x[1] = f)[2]]
FilterRows ==
    {FilterRow(c, s, q) : c \in {<<"s", "t", "o", "n", "e", " ", "o", "c", "e", "a", "n">>, <<"x">>},
                          s \in FilterValues, q \in FilterValues}
Thresholds == {0, 1, 3}
FilterConfs ==
    [min_style : Thresholds, min_quality : Thresholds, terms : {STRONG_TERMS_prep},
     extra_filters : {<<>>, <<[column |-> "category", allowed |-> <<<<"S", "t", "o", "n", "e">>>>]>>}]

InitFilter ==
    /\ pc = "f_start"
    /\ row \in FilterRows
    /\ conf \in FilterConfs
    /\ text = Idle /\ ret = Idle /\ ret2 = Idle
    /\ desc = Idle /\ extra = Idle
    /\ STRONG_LOOKUP = Idle /\ STRONG_PATTERN = Idle
    /\ RunIdle

\* matches_filters(row, min_style, min_quality, extra_filters), heavy variant
FilterHeavy ==
    /\ pc = "f_start"
    /\ ret' = matches_filters_heavy(row, conf.min_style, conf.min_quality, conf.extra_filters)
    /\ pc' = "f_heavy"
    /\ UNCHANGED <<text, row, conf, ret2, desc, extra, indexVars, runVars>>

\* matches_filters(row, min_style, min_quality, extra_filters), prep variant
FilterPrep ==
    /\ pc = "f_start"
    /\ ret' = matches_filters_prep(row, conf.min_style, conf.min_quality, conf.terms)
    /\ pc' = "f_prep"
    /\ UNCHANGED <<text, row, conf, ret2, desc, extra, indexVars, runVars>>

NextFilter == FilterHeavy \/ FilterPrep

SpecFilter == InitFilter /\ [][NextFilter]_vars

\* the column is missing, or its value is None, empty or no numeric literal
NotNumeric(r, column) == column \notin DOMAIN r \/ FloatOf(r[column]).kind = "error"

\* C10: a row whose style_match or quality is missing, empty or not a number
\* is rejected by matches_filters, for every threshold.
NumericGateRejects ==
    (pc \in {"f_heavy", "f_prep"}
        /\ (NotNumeric(row, "style_match") \/ NotNumeric(row, "quality")))
    => ret = FALSE

(***************************************************************************)
(* process_csv: the loop over the rows of the metadata CSV                 *)
(***************************************************************************)
FILE_COLUMN == "file_name"
TRIAGE_COLUMN == "triage"

\* generate_description of the heavy variant
generate_description_heavy(lookup, pattern, r) ==
    apply_term_weighting_heavy(lookup, pattern,
        Combine(DescribeRow(r), extract_strong_terms_heavy(r)))

\* the caption steps of process_csv (prep) after generate_description
CaptionPrep(d, trigger, concept) ==
    FinalPolish(InjectConcept(InjectTrigger(d, trigger), concept))

\* the index of the last "." of a file name, 0 when it has none
RECURSIVE LastDot(_, _)
LastDot(name, i) ==
    IF i = 0 THEN 0 ELSE IF name[i] = "." THEN i ELSE LastDot(name, i - 1)

\* Path(name).with_suffix(".txt") for a plain file name
WithSuffixTxt(name) ==
    LET d    == LastDot(name, Len(name))
        stem == IF d > 1 /\ d < Len(name) THEN SubSeq(name, 1, d - 1) ELSE name
    IN  stem \o <<".", "t", "x", "t">>

\* str(row.get(file_col, "")).strip()
RelPath(r) == Strip(StrGet(r, FILE_COLUMN))

\* str(row.get(triage_col, "")).strip().lower() == "skip"
TriageSkip(r) == LowerStr(Strip(StrGet(r, TRIAGE_COLUMN))) = <<"s", "k", "i", "p">>

\* counts of process_csv, heavy variant and prep variant
CountsHeavy ==
    [total_rows |-> 0, passed_filters |-> 0, annotations_written |-> 0,
     images_copied |-> 0, missing_images |-> 0, copy_errors |-> 0,
     empty_descriptions |-> 0]
CountsPrep == [total |-> 0, written |-> 0]

\* counts[k] += 1 for every k of ks
Bump(c, ks) == [k \in DOMAIN c |-> IF k \in ks THEN c[k] + 1 ELSE c[k]]

\* open(txt_output_path, "w").write(description)
WriteTxt(o, path, caption) ==
    [o EXCEPT !.txt = [q \in DOMAIN o.txt \cup {WithSuffixTxt(path)} |->
                          IF q = WithSuffixTxt(path) THEN caption ELSE o.txt[q]]]

\* shutil.copy2(source_img_path, img_output_path) that did not raise
CopyImg(o, path) == [o EXCEPT !.img = o.img \cup {path}]

\* The rows process_csv is examined with: a triaged row, a row under the
\* style threshold, a row without a file name, a row whose image is missing,
\* rows whose description comes out empty in one variant or the other, and
\* rows that get a caption.
CsvRows ==
    { [file_name |-> <<"a", ".", "p", "n", "g">>, triage |-> <<" ", "S", "k", "i", "p">>, style_match |-> <<"3">>, quality |-> <<"3">>, category |-> <<"s", "t", "o", "n", "e", "_", "o", "c", "e", "a", "n">>, llm_description |-> <<"g", "o", "l", "d", " ", "s", "k", "y">>],
      [file_name |-> <<"a", ".", "p", "n", "g">>, style_match |-> <<"0">>, quality |-> <<"3">>, category |-> <<"s", "t", "o", "n", "e", "_", "o", "c", "e", "a", "n">>, llm_description |-> <<"g", "o", "l", "d", " ", "s", "k", "y">>],
      [file_name |-> <<" ">>, style_match |-> <<"3">>, quality |-> <<"3">>, category |-> <<"s", "t", "o", "n", "e", "_", "o", "c", "e", "a", "n">>],
      [file_name |-> <<"b", ".", "p", "n", "g">>, style_match |-> <<"3">>, quality |-> <<"3">>, category |-> <<"s", "t", "o", "n", "e", "_", "o", "c", "e", "a", "n">>],
      [file_name |-> <<"a", ".", "p", "n", "g">>, style_match |-> <<"3">>, quality |-> <<"3">>, llm_description |-> <<"b", "l", "u", "r", "r", "y", " ", "s", "t", "o", "n", "e", " ", "o", "c", "e", "a", "n">>],
      [file_name |-> <<"a", ".", "p", "n", "g">>, style_match |-> <<"3">>, quality |-> <<"3">>],
      [file_name |-> <<"a", ".", "p", "n", "g">>, style_match |-> <<"3">>, quality |-> <<"3">>, category |-> <<"s", "t", "o", "n", "e", "_", "o", "c", "e", "a", "n">>, llm_description |-> <<"g", "o", "l", "d", " ", "s", "k", "y">>],
      [file_name |-> <<"s", "t", "o", "n", "e", "_", "o", "c", "e", "a", "n", ".", "p", "n", "g">>, style_match |-> <<"3">>, quality |-> <<"3">>, llm_description |-> <<"g", "o", "l", "d", "e", "n", " ", "g", "o", "l", "d">>] }

\* the files under IMAGE_SOURCE_DIR
SourceImages == {<<"a", ".", "p", "n", "g">>, <<"s", "t", "o", "n", "e", "_", "o", "c", "e", "a", "n", ".", "p", "n", "g">>}

MaxCsvRows == 2

\* the command line of the heavy variant, and the module constants of prep
CsvConfHeavy(dry) ==
    [variant |-> "heavy", dry_run |-> dry, min_style |-> 3, min_quality |-> 3,
     extra_filters |-> <<>>, terms |-> STRONG_TERMS_heavy,
     trigger |-> <<>>, concept |-> <<>>, images |-> SourceImages]
CsvConfPrep ==
    [variant |-> "prep", dry_run |-> FALSE, min_style |-> 1, min_quality |-> 1,
     extra_filters |-> <<>>, terms |-> STRONG_TERMS_prep,
     trigger |-> TRIGGER_WORD, concept |-> MANDATORY_CONCEPT, images |-> SourceImages]

InitCsv ==
    /\ pc = "c_import"
    /\ conf \in {CsvConfHeavy(FALSE), CsvConfHeavy(TRUE), CsvConfPrep}
    /\ reader \in UNION {[1..n -> CsvRows] : n \in 0..MaxCsvRows}
    /\ counts = Idle
    /\ out = [txt |-> <<>>, img |-> {}, report |-> FALSE]
    /\ row = Idle /\ text = Idle /\ ret = Idle /\ ret2 = Idle
    /\ desc = Idle /\ extra = Idle
    /\ STRONG_LOOKUP = Idle /\ STRONG_PATTERN = Idle
    /\ buf = Idle /\ done = Idle /\ calls = Idle /\ attempt = Idle /\ slept = Idle

\* module import: the index is built, and process_csv sets up its counters
CsvImport ==
    /\ pc = "c_import"
    /\ LET idx == IF conf.variant = "heavy" THEN build_strong_index_heavy(conf.terms)
                  ELSE build_strong_index_prep(conf.terms)
       IN  /\ STRONG_LOOKUP' = idx.lookup
           /\ STRONG_PATTERN' = idx.pattern
    /\ counts' = IF conf.variant = "heavy" THEN CountsHeavy ELSE CountsPrep
    /\ pc' = "c_loop"
    /\ UNCHANGED <<text, row, conf, ret, ret2, desc, extra, reader, out, buf, done,
                   calls, attempt, slept>>

\* the next row of the reader is taken: what every iteration of the loop does
TakeRow(variant) ==
    /\ pc = "c_loop"
    /\ conf.variant = variant
    /\ reader # <<>>
    /\ row' = Head(reader)
    /\ reader' = Tail(reader)
    /\ UNCHANGED <<pc, text, conf, ret, ret2, extra, indexVars, buf, done, calls,
                   attempt, slept>>

\* matches_filters as process_csv of each variant calls it
PassesHeavy(r) ==
    matches_filters_heavy(r, conf.min_style, conf.min_quality, conf.extra_filters)
PassesPrep(r) ==
    matches_filters_prep(r, conf.min_style, conf.min_quality, conf.terms)

\* the representative tokens that have a tag in a caption file written so far
TaggedSoFar ==
    {STRONG_LOOKUP[k].token : k \in {j \in DOMAIN STRONG_LOOKUP :
        \E q \in DOMAIN out.txt :
            Contains(out.txt[q], WeightTag(STRONG_LOOKUP[j].token, STRONG_LOOKUP[j].w))}}

\* generate_description with processed_snake kept from row to row: a token
\* tagged in an earlier caption gets no tag in a later one
DescriptionSharingTags(r) ==
    LET combined == Combine(DescribeRow(r), extract_strong_terms_heavy(r))
    IN  IF combined = <<>> THEN <<>>
        ELSE JoinAll(WeightLoopHeavy(STRONG_LOOKUP, combined,
                         FindIter(STRONG_PATTERN, combined), 1, 1, TaggedSoFar))

\* generate_description(row) with the index of the module
DescriptionHeavy(r) == generate_description_heavy(STRONG_LOOKUP, STRONG_PATTERN, r)
DescriptionPrep(r) == generate_description_prep(STRONG_LOOKUP, STRONG_PATTERN, r)

\* heavy: the triage column says skip
HeavyTriageSkip ==
    /\ TakeRow("heavy")
    /\ TriageSkip(Head(reader))
    /\ counts' = Bump(counts, {"total_rows"})
    /\ UNCHANGED <<desc, out>>

\* heavy: if not matches_filters(...): continue
HeavyFiltered ==
    /\ TakeRow("heavy")
    /\ ~TriageSkip(Head(reader))
    /\ ~PassesHeavy(Head(reader))
    /\ counts' = Bump(counts, {"total_rows"})
    /\ UNCHANGED <<desc, out>>

\* heavy: if not rel_path_raw: continue
HeavyNoPath ==
    /\ TakeRow("heavy")
    /\ ~TriageSkip(Head(reader))
    /\ PassesHeavy(Head(reader))
    /\ RelPath(Head(reader)) = <<>>
    /\ counts' = Bump(counts, {"total_rows", "passed_filters"})
    /\ UNCHANGED <<desc, out>>

\* heavy: the source image does not exist
HeavyMissingImage ==
    /\ TakeRow("heavy")
    /\ ~TriageSkip(Head(reader))
    /\ PassesHeavy(Head(reader))
    /\ RelPath(Head(reader)) # <<>>
    /\ RelPath(Head(reader)) \notin conf.images
    /\ counts' = Bump(counts, {"total_rows", "passed_filters", "missing_images"})
    /\ UNCHANGED <<desc, out>>

\* the row reaches generate_description in the heavy variant
HeavyDescribed ==
    /\ TakeRow("heavy")
    /\ ~TriageSkip(Head(reader))
    /\ PassesHeavy(Head(reader))
    /\ RelPath(Head(reader)) # <<>>
    /\ RelPath(Head(reader)) \in conf.images
    /\ desc' = DescriptionHeavy(Head(reader))

\* heavy: if not description: counts["empty_descriptions"] += 1; continue
HeavyEmpty ==
    /\ HeavyDescribed
    /\ desc' = <<>>
    /\ counts' = Bump(counts, {"total_rows", "passed_filters", "empty_descriptions"})
    /\ UNCHANGED out

\* heavy, dry_run: nothing is written
HeavyDryRun ==
    /\ HeavyDescribed
    /\ desc' # <<>>
    /\ conf.dry_run
    /\ counts' = Bump(counts, {"total_rows", "passed_filters"})
    /\ UNCHANGED out

\* heavy: the caption is written and the image copied
HeavyWrite ==
    /\ HeavyDescribed
    /\ desc' # <<>>
    /\ ~conf.dry_run
    /\ counts' = Bump(counts, {"total_rows", "passed_filters", "annotations_written",
                               "images_copied"})
    /\ out' = CopyImg(WriteTxt(out, RelPath(Head(reader)), desc'), RelPath(Head(reader)))

\* heavy, a non-dry run: the caption is written and the copy is not counted
\* as an error
HeavyCopyErrorUncounted ==
    /\ HeavyDescribed
    /\ desc' # <<>>
    /\ ~conf.dry_run
    /\ counts' = Bump(counts, {"total_rows", "passed_filters", "annotations_written"})
    /\ out' = WriteTxt(out, RelPath(Head(reader)), desc')

\* heavy: the caption is written and shutil.copy2 raises
HeavyCopyError ==
    /\ HeavyDescribed
    /\ desc' # <<>>
    /\ ~conf.dry_run
    /\ counts' = Bump(counts, {"total_rows", "passed_filters", "annotations_written",
                               "copy_errors"})
    /\ out' = WriteTxt(out, RelPath(Head(reader)), desc')

\* prep: if not matches_filters(...): continue
PrepFiltered ==
    /\ TakeRow("prep")
    /\ ~PassesPrep(Head(reader))
    /\ counts' = Bump(counts, {"total"})
    /\ UNCHANGED <<desc, out>>

\* prep: if not rel_path: continue
PrepNoPath ==
    /\ TakeRow("prep")
    /\ PassesPrep(Head(reader))
    /\ RelPath(Head(reader)) = <<>>
    /\ counts' = Bump(counts, {"total"})
    /\ UNCHANGED <<desc, out>>

\* prep: the source image does not exist
PrepMissingImage ==
    /\ TakeRow("prep")
    /\ PassesPrep(Head(reader))
    /\ RelPath(Head(reader)) # <<>>
    /\ RelPath(Head(reader)) \notin conf.images
    /\ counts' = Bump(counts, {"total"})
    /\ UNCHANGED <<desc, out>>

\* the row reaches generate_description in the prep variant
PrepDescribed ==
    /\ TakeRow("prep")
    /\ PassesPrep(Head(reader))
    /\ RelPath(Head(reader)) # <<>>
    /\ RelPath(Head(reader)) \in conf.images

\* prep: if not desc: continue
PrepEmpty ==
    /\ PrepDescribed
    /\ DescriptionPrep(Head(reader)) = <<>>
    /\ desc' = <<>>
    /\ counts' = Bump(counts, {"total"})
    /\ UNCHANGED out

\* prep: trigger, concept, polish; the caption is written and the image copied
PrepWrite ==
    /\ PrepDescribed
    /\ DescriptionPrep(Head(reader)) # <<>>
    /\ desc' = CaptionPrep(DescriptionPrep(Head(reader)), conf.trigger, conf.concept)
    /\ counts' = Bump(counts, {"total", "written"})
    /\ out' = CopyImg(WriteTxt(out, RelPath(Head(reader)), desc'), RelPath(Head(reader)))

\* prep: the caption is written and shutil.copy2 raises
PrepCopyError ==
    /\ PrepDescribed
    /\ DescriptionPrep(Head(reader)) # <<>>
    /\ desc' = CaptionPrep(DescriptionPrep(Head(reader)), conf.trigger, conf.concept)
    /\ counts' = Bump(counts, {"total"})
    /\ out' = WriteTxt(out, RelPath(Head(reader)), desc')

\* whether report.json is there after the report step: it is opened by the
\* heavy variant only, `if not dry_run`, and an exception raised by open is
\* caught and printed
ReportOutcomes ==
    IF conf.variant = "heavy" /\ ~conf.dry_run THEN {TRUE, FALSE} ELSE {FALSE}

\* the reader is exhausted: the report is printed and, in a heavy run that is
\* not a dry run, report.json is written; heavy returns counts
CsvReport ==
    /\ pc = "c_loop"
    /\ reader = <<>>
    /\ ret' = IF conf.variant = "heavy" THEN counts ELSE None
    /\ \E written \in ReportOutcomes : out' = [out EXCEPT !.report = written]
    /\ pc' = "c_done"
    /\ UNCHANGED <<text, row, conf, ret2, desc, extra, indexVars, reader, counts,
                   buf, done, calls, attempt, slept>>

NextCsv ==
    \/ CsvImport
    \/ HeavyTriageSkip \/ HeavyFiltered \/ HeavyNoPath \/ HeavyMissingImage
    \/ HeavyEmpty \/ HeavyDryRun \/ HeavyWrite \/ HeavyCopyError
    \/ PrepFiltered \/ PrepNoPath \/ PrepMissingImage
    \/ PrepEmpty \/ PrepWrite \/ PrepCopyError
    \/ CsvReport

SpecCsv == InitCsv /\ [][NextCsv]_vars

\* the row passes triage and the filters
Eligible(r) ==
    IF conf.variant = "heavy" THEN ~TriageSkip(r) /\ PassesHeavy(r) ELSE PassesPrep(r)

\* the row's image exists
HasImage(r) == RelPath(r) # <<>> /\ RelPath(r) \in conf.images

\* generate_description(row) of the variant in effect
DescriptionOf(r) ==
    IF conf.variant = "heavy" THEN DescriptionHeavy(r) ELSE DescriptionPrep(r)

\* one iteration of the loop has taken the row at the head of the reader
RowTaken == pc = "c_loop" /\ reader # <<>> /\ reader' = Tail(reader)

\* C11: when process_csv takes a row that passes the filters, has an existing
\* image and gets an empty description, a counter kept for empty descriptions
\* goes up by one and no caption file is written.
EmptyDescriptionReported ==
    [][(RowTaken /\ Eligible(Head(reader)) /\ HasImage(Head(reader))
            /\ DescriptionOf(Head(reader)) = <<>>)
        => /\ "empty_descriptions" \in DOMAIN counts'
           /\ counts'.empty_descriptions = counts.empty_descriptions + 1
           /\ out' = out]_vars

\* C24: in the heavy variant, after every row of a run that is not a dry run,
\* annotations_written = images_copied + copy_errors and total_rows >=
\* passed_filters >= annotations_written + missing_images +
\* empty_descriptions; in a dry run annotations_written, images_copied and
\* copy_errors stay 0 and no caption file, image or report.json is written.
CountersConsistent ==
    (conf.variant = "heavy" /\ pc \in {"c_loop", "c_done"}) =>
        IF conf.dry_run
        THEN /\ counts.annotations_written = 0
             /\ counts.images_copied = 0
             /\ counts.copy_errors = 0
             /\ out = [txt |-> <<>>, img |-> {}, report |-> FALSE]
        ELSE /\ counts.annotations_written = counts.images_copied + counts.copy_errors
             /\ counts.total_rows >= counts.passed_filters
             /\ counts.passed_filters >=
                   counts.annotations_written + counts.missing_images
                       + counts.empty_descriptions

\* a run that is not a dry run is over: one image was copied, one copy
\* failed, and report.json is written
CountersConsistentWitness ==
    /\ pc = "c_done" /\ conf.variant = "heavy" /\ ~conf.dry_run
    /\ counts.images_copied = 1 /\ counts.copy_errors = 1
    /\ out.report

(***************************************************************************)
(* scrub_junk_phrases under a reordered JUNK_PHRASES                       *)
(***************************************************************************)
\* three of the configured phrases, no two of which share a word
OrderPhrases ==
    { <<"m", "i", "s", "c">>, <<"b", "a", "d", " ", "q", "u", "a", "l", "i", "t", "y">>, <<"o", "t", "h", "e", "r", " ", "t", "a", "g", "s">> }

\* every ordering of the items of a set
Orderings(P) == {q \in [1..Cardinality(P) -> P] : Range(q) = P}

\* a non-empty end of p is a start of q, or q lies inside p: matches of the
\* two phrases can share characters
Overlap(p, q) ==
    \/ \E k \in 1..Len(p) : MatchAtCI(q, 1, SubSeq(p, k, Len(p)))
    \/ \E k \in 1..Len(p) : MatchAtCI(p, k, q)

NonOverlapping(phrases) ==
    \A i, j \in DOMAIN phrases : i # j => ~Overlap(phrases[i], phrases[j])

\* The texts the reordered lists are examined with.
OrderPieces ==
    { <<" ">>, <<",">>, <<"b", "a", "d", " ">>, <<"m", "i", "s", "c">>, <<"q", "u", "a", "l", "i", "t", "y">>, <<"o", "t", "h", "e", "r", " ", "t", "a", "g", "s">>, <<"n", "i", "c", "e">> }
MaxOrderPieces == 4

InitOrder ==
    /\ pc = "o_start"
    /\ text \in PiecesUpTo(OrderPieces, MaxOrderPieces)
    /\ conf \in [phrases : Orderings(OrderPhrases)]
    /\ row = Idle /\ ret = Idle /\ ret2 = Idle
    /\ desc = Idle /\ extra = Idle
    /\ STRONG_LOOKUP = Idle /\ STRONG_PATTERN = Idle
    /\ RunIdle

\* scrub_junk_phrases(text) with JUNK_PHRASES = conf.phrases
ScrubInOrder ==
    /\ pc = "o_start"
    /\ ret' = ScrubJunkWith(text, conf.phrases)
    /\ pc' = "o_first"
    /\ UNCHANGED <<text, row, conf, ret2, desc, extra, indexVars, runVars>>

\* scrub_junk_phrases(text) with JUNK_PHRASES a permutation of conf.phrases
ScrubPermuted ==
    /\ pc = "o_first"
    /\ \E q \in Orderings(Range(conf.phrases)) : ret2' = ScrubJunkWith(text, q)
    /\ pc' = "o_second"
    /\ UNCHANGED <<text, row, conf, ret, desc, extra, indexVars, runVars>>

NextOrder == ScrubInOrder \/ ScrubPermuted

SpecOrder == InitOrder /\ [][NextOrder]_vars

\* C14: for a phrase list without overlapping phrases, scrub_junk_phrases
\* returns the same text under every permutation of the list.
OrderIndependent ==
    (pc = "o_second" /\ NonOverlapping(conf.phrases)) => ret2 = ret

(***************************************************************************)
(* build_strong_index of both variants over small configurations, and      *)
(* apply_term_weighting on the surface forms of the configuration          *)
(***************************************************************************)
\* the canonical terms, the weights and the synonym lists a configuration
\* entry is made of
IndexTermNames == { <<"g", "o", "l", "d">>, <<"G", "o", "l", "d">>, <<"S", "t", "o", "n", "e", " ", "o", "c", "e", "a", "n">> }
IndexWeights == {14, 15}
IndexSynonyms == { <<>>, <<<<"g", "o", "l", "d", "e", "n">>>>, <<<<"g", "o", "l", "d">>>>, <<<<"s", "t", "o", "n", "e", "_", "o", "c", "e", "a", "n">>>> }
IndexEntries == [term : IndexTermNames, w : IndexWeights, syns : IndexSynonyms]

MaxTerms == 2

\* STRONG_TERMS: a dict, so no two entries have the same canonical term
IndexConfigs ==
    {c \in UNION {[1..n -> IndexEntries] : n \in 1..MaxTerms} :
        \A i, j \in DOMAIN c : i # j => c[i].term # c[j].term}

\* every canonical term and synonym of a configuration, as written
SurfaceForms(terms) ==
    {terms[k].term : k \in DOMAIN terms}
        \cup UNION {Range(terms[k].syns) : k \in DOMAIN terms}

InitIndex ==
    /\ pc = "i_import"
    /\ conf \in [variant : {"heavy", "prep"}, terms : IndexConfigs]
    /\ text \in SurfaceForms(conf.terms)
    /\ row = Idle /\ ret = Idle /\ ret2 = Idle
    /\ desc = Idle /\ extra = Idle
    /\ STRONG_LOOKUP = Idle /\ STRONG_PATTERN = Idle
    /\ RunIdle

\* STRONG_LOOKUP, STRONG_PATTERN = build_strong_index(STRONG_TERMS), heavy
IndexHeavy ==
    /\ pc = "i_import" /\ conf.variant = "heavy"
    /\ LET idx == build_strong_index_heavy(conf.terms)
       IN  /\ STRONG_LOOKUP' = idx.lookup
           /\ STRONG_PATTERN' = idx.pattern
    /\ pc' = "i_ready"
    /\ UNCHANGED <<text, row, conf, ret, ret2, desc, extra, runVars>>

\* STRONG_LOOKUP, STRONG_PATTERN = build_strong_index(STRONG_TERMS), prep
IndexPrep ==
    /\ pc = "i_import" /\ conf.variant = "prep"
    /\ LET idx == build_strong_index_prep(conf.terms)
       IN  /\ STRONG_LOOKUP' = idx.lookup
           /\ STRONG_PATTERN' = idx.pattern
    /\ pc' = "i_ready"
    /\ UNCHANGED <<text, row, conf, ret, ret2, desc, extra, runVars>>

\* apply_term_weighting(text), heavy: the annotate policy
AnnotateForm ==
    /\ pc = "i_ready" /\ conf.variant = "heavy"
    /\ ret' = apply_term_weighting_heavy(STRONG_LOOKUP, STRONG_PATTERN, text)
    /\ pc' = "i_done"
    /\ UNCHANGED <<text, row, conf, ret2, desc, extra, indexVars, runVars>>

\* apply_term_weighting(text), prep: the replace policy
ReplaceForm ==
    /\ pc = "i_ready" /\ conf.variant = "prep"
    /\ ret' = apply_term_weighting_prep(STRONG_LOOKUP, STRONG_PATTERN, text)
    /\ pc' = "i_done"
    /\ UNCHANGED <<text, row, conf, ret2, desc, extra, indexVars, runVars>>

NextIndex == IndexHeavy \/ IndexPrep \/ AnnotateForm \/ ReplaceForm

SpecIndex == InitIndex /\ [][NextIndex]_vars

\* the index is built
IndexBuilt == pc \in {"i_ready", "i_done"}

\* C15: every synonym of a configured term has in the lookup the entry of the
\* term's canonical form (the same representative token and weight), and a
\* text that is a synonym is tagged (heavy) or replaced (prep) with the
\* canonical form's representative token.
SynonymResolves ==
    IndexBuilt =>
        \A k \in DOMAIN conf.terms :
            LET canonical == STRONG_LOOKUP[_normalize_phrase_spaces_lower(conf.terms[k].term)]
            IN  \A j \in DOMAIN conf.terms[k].syns :
                    LET syn == conf.terms[k].syns[j]
                    IN  /\ STRONG_LOOKUP[_normalize_phrase_spaces_lower(syn)] = canonical
                        /\ (pc = "i_done" /\ text = syn) =>
                              IF conf.variant = "heavy"
                              THEN ret = syn \o <<" ">> \o WeightTag(canonical.token, canonical.w)
                              ELSE ret = canonical.token

\* the entries of the configuration, in order, whose canonical term or a
\* synonym normalizes to key
Colliding(key) ==
    SelectSeq(conf.terms, LAMBDA e : key \in Variants(e))

\* C19: the lookup has exactly the normalized forms of the configuration as
\* keys, and the weight under a key is the weight of the first entry that
\* normalizes to it or the largest weight of the entries that do; in the
\* heavy variant it is the largest.
CollisionPolicy ==
    IndexBuilt =>
        /\ DOMAIN STRONG_LOOKUP = UNION {Variants(conf.terms[k]) : k \in DOMAIN conf.terms}
        /\ \A key \in DOMAIN STRONG_LOOKUP :
              LET es      == Colliding(key)
                  largest == SetMax({es[i].w : i \in DOMAIN es})
              IN  /\ STRONG_LOOKUP[key].w \in {es[1].w, largest}
                  /\ conf.variant = "heavy" => STRONG_LOOKUP[key].w = largest

(***************************************************************************)
(* apply_term_weighting (heavy) with and without configured terms          *)
(***************************************************************************)
\* STRONG_TERMS = {}
STRONG_TERMS_none == <<>>

InitAnnotate ==
    /\ pc = "w_import"
    /\ text \in WeightTexts
    /\ conf \in {[terms |-> STRONG_TERMS_heavy], [terms |-> STRONG_TERMS_nested],
                 [terms |-> STRONG_TERMS_none]}
    /\ row = Idle /\ ret = Idle /\ ret2 = Idle
    /\ desc = Idle /\ extra = Idle
    /\ STRONG_LOOKUP = Idle /\ STRONG_PATTERN = Idle
    /\ RunIdle

SpecAnnotate == InitAnnotate /\ [][NextWeight]_vars

\* the strings apply_term_weighting can insert: " " and the tag of a lookup
\* entry, or of the default (_snake_lower(matched), 1.0) for the empty match
InsertedTags ==
    {<<" ">> \o WeightTag(STRONG_LOOKUP[k].token, STRONG_LOOKUP[k].w) : k \in DOMAIN STRONG_LOOKUP}
        \cup {<<" ">> \o WeightTag(<<>>, 10)}

\* s with every occurrence of an inserted tag deleted
RECURSIVE DeleteTagsFrom(_, _)
DeleteTagsFrom(s, i) ==
    IF i > Len(s) THEN <<>>
    ELSE IF \E t \in InsertedTags : MatchAt(s, i, t)
         THEN LET t == CHOOSE u \in InsertedTags : MatchAt(s, i, u)
              IN  DeleteTagsFrom(s, i + Len(t))
         ELSE <<s[i]>> \o DeleteTagsFrom(s, i + 1)

DeleteTags(s) == DeleteTagsFrom(s, 1)

\* C20: under the annotate policy the output with the inserted tags deleted
\* is the input text, and with no term configured the output is the input.
AnnotateOnlyInserts ==
    pc = "w_done" =>
        /\ DeleteTags(ret.out) = text
        /\ conf.terms = <<>> => ret.out = text

(***************************************************************************)
(* process_csv: the caption of a row and the rows before it                *)
(***************************************************************************)
\* the index as build_strong_index makes it from the configuration
BuiltIndex ==
    IF conf.variant = "heavy" THEN build_strong_index_heavy(conf.terms)
    ELSE build_strong_index_prep(conf.terms)

\* the caption of row r computed from r and the built index alone
CaptionOf(r) ==
    IF conf.variant = "heavy"
    THEN generate_description_heavy(BuiltIndex.lookup, BuiltIndex.pattern, r)
    ELSE LET d == generate_description_prep(BuiltIndex.lookup, BuiltIndex.pattern, r)
         IN  IF d = <<>> THEN d ELSE CaptionPrep(d, conf.trigger, conf.concept)

TransientErrors == {"ResourceExhausted", "DeadlineExceeded", "ServiceUnavailable"}

\* an exception of generate_content or of resp.text that call_model does not
\* catch
OtherErrors == {"InvalidArgument", "ValueError"}

\* the values of resp.text: None and strs, empty, blank and not
ResponseTexts == { None, <<>>, <<" ">>, <<"a", " ", "c", "a", "t">>, <<" ", "a", " ", "c", "a", "t", " ">> }

\* (resp.text or "").strip()
TextOrEmpty(t) == IF Falsy(t) THEN <<>> ELSE Strip(t)

RECURSIVE Pow2(_)
Pow2(n) == IF n = 0 THEN 1 ELSE 2 * Pow2(n - 1)

MaxRetries == 3

\* call_model(img_path, retries) is entered
InitCall ==
    /\ pc = "m_open"
    /\ conf \in [retries : 0..MaxRetries]
    /\ text = <<"a", ".", "p", "n", "g">>
    /\ attempt = 0
    /\ slept = <<>>
    /\ calls = <<>>
    /\ ret = Idle
    /\ row = Idle /\ ret2 = Idle /\ desc = Idle /\ extra = Idle
    /\ STRONG_LOOKUP = Idle /\ STRONG_PATTERN = Idle
    /\ reader = Idle /\ counts = Idle /\ out = Idle /\ buf = Idle /\ done = Idle

\* the variables call_model leaves alone
callFrame == <<text, row, conf, ret2, desc, extra, indexVars, reader, counts, out, buf, done>>

\* with open(img_path, "rb") as f: img = Image.from_bytes(f.read())
OpenImage ==
    /\ pc = "m_open"
    /\ pc' = "m_loop"
    /\ UNCHANGED <<ret, attempt, slept, calls>>
    /\ UNCHANGED callFrame

\* open(img_path, "rb") raises
OpenFails ==
    /\ pc = "m_open"
    /\ ret' = [kind |-> "raise", exc |-> "FileNotFoundError"]
    /\ pc' = "m_done"
    /\ UNCHANGED <<attempt, slept, calls>>
    /\ UNCHANGED callFrame

\* generate_content answers: return (resp.text or "").strip()
ModelAnswers ==
    /\ pc = "m_loop" /\ attempt < conf.retries
    /\ \E t \in ResponseTexts :
          /\ calls' = Append(calls, "answer")
          /\ ret' = [kind |-> "return", value |-> TextOrEmpty(t)]
    /\ pc' = "m_done"
    /\ UNCHANGED <<attempt, slept>>
    /\ UNCHANGED callFrame

\* generate_content raises an exception that is caught: sleep and go round
ModelTransient ==
    /\ pc = "m_loop" /\ attempt < conf.retries
    /\ \E e \in TransientErrors : calls' = Append(calls, e)
    /\ slept' = Append(slept, Pow2(attempt + 1))
    /\ attempt' = attempt + 1
    /\ UNCHANGED <<pc, ret>>
    /\ UNCHANGED callFrame

\* generate_content or resp.text raises an exception that is not caught
ModelFails ==
    /\ pc = "m_loop" /\ attempt < conf.retries
    /\ \E e \in OtherErrors :
          /\ calls' = Append(calls, e)
          /\ ret' = [kind |-> "raise", exc |-> e]
    /\ pc' = "m_done"
    /\ UNCHANGED <<attempt, slept>>
    /\ UNCHANGED callFrame

\* the loop is over: raise RuntimeError("Max retries exceeded")
RetriesExceeded ==
    /\ pc = "m_loop" /\ attempt = conf.retries
    /\ ret' = [kind |-> "raise", exc |-> "RuntimeError"]
    /\ pc' = "m_done"
    /\ UNCHANGED <<attempt, slept, calls>>
    /\ UNCHANGED callFrame

NextCall ==
    \/ OpenImage \/ OpenFails \/ ModelAnswers \/ ModelTransient \/ ModelFails
    \/ RetriesExceeded

SpecCall == InitCall /\ [][NextCall]_vars

\* C18: call_model makes at most `retries` model calls, sleeps 2, 4, 8, ...
\* seconds after the transient errors, raises RuntimeError when the last
\* attempt raised a transient error or returned an empty text, and returns
\* only a non-empty text.
CallModelContract ==
    /\ Len(calls) <= conf.retries
    /\ slept = [i \in 1..Len(slept) |-> Pow2(i)]
    /\ Len(slept) = Cardinality({i \in DOMAIN calls : calls[i] \in TransientErrors})
    /\ pc = "m_done" =>
          /\ ret.kind = "return" => ret.value # <<>>
          /\ (calls # <<>> /\ Len(calls) = conf.retries
                 /\ calls[Len(calls)] \in TransientErrors)
                => ret = [kind |-> "raise", exc |-> "RuntimeError"]

(***************************************************************************)
(* gemini_reverse_prompt_batch.py: load_done_set and main, run after run   *)
(* against the same OUT_CSV                                                *)
(***************************************************************************)

\* sorted(glob.glob(IMAGE_GLOB)) for the image directories examined
ImageFiles == { <<"a.png">>, <<"a.png", "b.png">> }

\* what call_model can return to main: "" included, see ModelAnswers
ReversePrompts == {"", "a cat"}

\* w.writerow(["file_path", "reverse_prompt"])
HeaderRow == <<"file_path", "reverse_prompt">>

\* OUT_CSV before the first run: os.path.exists(OUT_CSV) is False
NoFile == [exists |-> FALSE, lines |-> <<>>]

\* load_done_set(csv_path): row 0 is taken for the header whatever it holds;
\* a csv row is the list of its fields
load_done_set(f) ==
    IF ~f.exists THEN {}
    ELSE { f.lines[i][1] : i \in { j \in 2..Len(f.lines) :
                                     f.lines[j] # <<>> /\ f.lines[j][1] # "" } }

\* the buffered rows reach the file: f.flush(), or the file is closed
Flushed(f, rows) == [exists |-> TRUE, lines |-> f.lines \o rows]

\* the calls of generate_content that the runs examined make in all
MaxCalls == 4

\* no run has been started
InitBatch ==
    /\ pc = "b_idle"
    /\ conf \in [files : ImageFiles]
    /\ out = NoFile
    /\ buf = <<>>
    /\ done = {}
    /\ reader = <<>>
    /\ counts = 0
    /\ calls = <<>>
    /\ text = Idle /\ row = Idle /\ ret = Idle /\ ret2 = Idle /\ desc = Idle
    /\ extra = Idle /\ STRONG_LOOKUP = Idle /\ STRONG_PATTERN = Idle
    /\ attempt = Idle /\ slept = Idle

\* the variables main leaves alone
batchFrame == <<text, row, conf, ret, ret2, desc, extra, indexVars, attempt, slept>>

\* main() up to the loop: files, done, mode, open(OUT_CSV, mode) and, in mode
\* "w", the header, which stays in the buffer of the file object
StartRun ==
    /\ pc = "b_idle"
    /\ reader' = conf.files
    /\ done' = load_done_set(out)
    /\ out' = [exists |-> TRUE, lines |-> IF out.exists THEN out.lines ELSE <<>>]
    /\ buf' = IF out.exists THEN <<>> ELSE <<HeaderRow>>
    /\ counts' = 0
    /\ pc' = "b_loop"
    /\ UNCHANGED calls
    /\ UNCHANGED batchFrame

\* if path in done: continue
SkipDone ==
    /\ pc = "b_loop" /\ reader # <<>>
    /\ Head(reader) \in done
    /\ reader' = Tail(reader)
    /\ UNCHANGED <<pc, out, buf, done, counts, calls>>
    /\ UNCHANGED batchFrame

\* rp = call_model(path) returns; w.writerow([path, rp])
CallReturns ==
    /\ pc = "b_loop" /\ reader # <<>>
    /\ Head(reader) \notin done
    /\ Len(calls) < MaxCalls
    /\ calls' = Append(calls, Head(reader))
    /\ \E rp \in ReversePrompts : buf' = Append(buf, <<Head(reader), rp>>)
    /\ pc' = "b_flush"
    /\ UNCHANGED <<reader, out, done, counts>>
    /\ UNCHANGED batchFrame

\* f.flush(); processed += 1
FlushRow ==
    /\ pc = "b_flush"
    /\ out' = Flushed(out, buf)
    /\ buf' = <<>>
    /\ counts' = counts + 1
    /\ reader' = Tail(reader)
    /\ pc' = "b_loop"
    /\ UNCHANGED <<done, calls>>
    /\ UNCHANGED batchFrame

\* call_model(path) raises after the model was called: except Exception
CallRaises ==
    /\ pc = "b_loop" /\ reader # <<>>
    /\ Head(reader) \notin done
    /\ Len(calls) < MaxCalls
    /\ calls' = Append(calls, Head(reader))
    /\ reader' = Tail(reader)
    /\ UNCHANGED <<pc, out, buf, done, counts>>
    /\ UNCHANGED batchFrame

\* the loop is over: the with block closes the file
EndRun ==
    /\ pc = "b_loop" /\ reader = <<>>
    /\ out' = Flushed(out, buf)
    /\ buf' = <<>>
    /\ pc' = "b_idle"
    /\ UNCHANGED <<reader, done, counts, calls>>
    /\ UNCHANGED batchFrame

\* KeyboardInterrupt inside the with block: it is not an Exception, so it
\* leaves main, and the with block closes the file on the way out
Interrupted ==
    /\ pc \in {"b_loop", "b_flush"}
    /\ out' = Flushed(out, buf)
    /\ buf' = <<>>
    /\ pc' = "b_idle"
    /\ UNCHANGED <<reader, done, counts, calls>>
    /\ UNCHANGED batchFrame

\* the process is killed (SIGKILL, power loss): what is in the buffer of the
\* file object never reaches the file
Killed ==
    /\ pc \in {"b_loop", "b_flush"}
    /\ buf' = <<>>
    /\ pc' = "b_idle"
    /\ UNCHANGED <<reader, out, done, counts, calls>>
    /\ UNCHANGED batchFrame

NextBatch ==
    \/ StartRun \/ SkipDone \/ CallReturns \/ FlushRow \/ CallRaises
    \/ EndRun \/ Interrupted \/ Killed

SpecBatch == InitBatch /\ [][NextBatch]_vars

\* the rows of the file on disk that are rows of image path p
RowsOf(f, p) == { i \in DOMAIN f.lines : f.lines[i] # <<>> /\ f.lines[i][1] = p }

\* a call of the model is made in this step
ModelCalled == calls' # calls

\* the image path the model is called with in this step
PathSent == calls'[Len(calls')]

\* C17: the reverse-prompt batch is resumable. Over every sequence of runs of
\* main against the same OUT_CSV, runs interrupted or killed at any point
\* included: no image path has two rows in the CSV; a path that has a row in
\* the CSV is not sent to the model; a call that raises adds no row, and its
\* path is not in the done set of the next run, so that it is attempted again.
Resumable ==
    /\ [](\A p \in {"a.png", "b.png"} : Cardinality(RowsOf(out, p)) <= 1)
    /\ [][ModelCalled => RowsOf(out, PathSent) = {}]_vars
    /\ [][(ModelCalled /\ pc' = "b_loop") => (out' = out /\ buf' = buf)]_vars
    /\ [][(pc = "b_idle" /\ pc' = "b_loop")
             => done' = { p \in {"a.png", "b.png"} : RowsOf(out, p) # {} }]_vars

(***************************************************************************)
(* extract_strong_terms: what is emitted, and in which order               *)
(***************************************************************************)
\* the trimmed, non-empty values of the fields of row r, in the order of the
\* field list and, inside a field, of the split
RECURSIVE OccurrencesFrom(_, _, _)
OccurrencesFrom(r, fields, f) ==
    IF f > Len(fields) THEN <<>>
    ELSE LET v == RowGet(r, fields[f])
         IN  (IF Falsy(v) THEN <<>> ELSE StripNonEmpty(SplitSep(v)))
                 \o OccurrencesFrom(r, fields, f + 1)

Occurrences(r, fields) == OccurrencesFrom(r, fields, 1)

\* human_val = val.replace("_", " ")
ReadableForm(val) == ReplaceChar(val, "_", " ")

\* key = _normalize_phrase_spaces_lower(human_val)
DedupKey(val) == _normalize_phrase_spaces_lower(ReadableForm(val))

\* the key holds an item of the issue vocabulary as a substring
KeyHasIssue(val) == \E tok \in ISSUE_TERMS : Contains(DedupKey(val), tok)

\* the occurrences that are the first of their dedup key, those that
\* extraction-time filtering skips left out when it is on
FirstSeen(occ, filtering) ==
    { i \in DOMAIN occ :
        /\ ~(filtering /\ KeyHasIssue(occ[i]))
        /\ \A j \in 1..(i - 1) : DedupKey(occ[j]) # DedupKey(occ[i]) }

\* the readable forms of the first occurrences, in the order of occurrence
FirstSeenForms(occ, filtering) ==
    LET kept   == FirstSeen(occ, filtering)
        nth(k) == CHOOSE i \in kept : Cardinality({j \in kept : j <= i}) = k
    IN  [k \in 1..Cardinality(kept) |-> ReadableForm(occ[nth(k)])]

\* the occurrences and the forms the claim expects for the call that was made
OccurrencesOfRow ==
    IF pc = "x_heavy" THEN Occurrences(row, TERM_SOURCE_FIELDS_heavy)
    ELSE Occurrences(row, TERM_SOURCE_FIELDS_prep)
ExpectedForms == FirstSeenForms(OccurrencesOfRow, pc = "x_prep")

\* C22 as stated: extract_strong_terms emits, for each distinct dedup key
\* (among the tokens extraction-time filtering leaves), the readable form of
\* its first occurrence, in the order of first occurrence by field and then
\* by position in the field; empty tokens are skipped and the result is the
\* tokens joined by single spaces.
FirstSeenJoined ==
    pc \in {"x_heavy", "x_prep"} =>
        /\ ret.tokens = ExpectedForms
        /\ ret.out = JoinSpace(ExpectedForms)

\* C22 as amended: the emitted tokens are the first-seen readable forms in the
\* order of first occurrence, and the result is the tokens joined by single
\* spaces with the whitespace at its two ends removed.
FirstSeenOrder ==
    pc \in {"x_heavy", "x_prep"} =>
        /\ ret.tokens = ExpectedForms
        /\ ret.out = Strip(JoinSpace(ExpectedForms))

\* two tokens from two fields after a later spelling of the first key was
\* dropped, the first beginning with an underscore: the result is trimmed
FirstSeenOrderWitness ==
    /\ pc = "x_heavy"
    /\ Len(ret.tokens) = 2
    /\ Len(OccurrencesOfRow) > 2
    /\ "tags" \in DOMAIN row
    /\ ret.tokens[2] \in {ReadableForm(Strip(v)) : v \in Range(SplitSep(row.tags))}
    /\ ret.out # JoinSpace(ret.tokens)

\* C23: with extraction-time filtering on (the prep variant), the tokens
\* skipped are exactly those whose dedup key holds an issue-vocabulary item
\* as a substring: no emitted token has such a key, every emitted token is
\* the form of an occurrence, and every occurrence whose key holds none is
\* emitted exactly once per dedup key.
IssueTokensSkipped ==
    pc = "x_prep" =>
        LET occ == Occurrences(row, TERM_SOURCE_FIELDS_prep)
        IN  /\ \A k \in DOMAIN ret.tokens :
                  /\ ~KeyHasIssue(ret.tokens[k])
                  /\ \E i \in DOMAIN occ : ret.tokens[k] = ReadableForm(occ[i])
            /\ \A i \in DOMAIN occ :
                  ~KeyHasIssue(occ[i]) =>
                      Cardinality({k \in DOMAIN ret.tokens :
                                      DedupKey(ret.tokens[k]) = DedupKey(occ[i])}) = 1

\* a row with a token that is an issue item, a token that holds one inside,
\* and tokens that are kept
IssueTokensSkippedWitness ==
    /\ pc = "x_prep"
    /\ LET occ == Occurrences(row, TERM_SOURCE_FIELDS_prep)
       IN  /\ \E i \in DOMAIN occ : DedupKey(occ[i]) \in ISSUE_TERMS
           /\ \E i \in DOMAIN occ : KeyHasIssue(occ[i]) /\ DedupKey(occ[i]) \notin ISSUE_TERMS
           /\ Len(ret.tokens) >= 2
====
